---- MODULE Spec2Model ----
(***************************************************************************)
(* A model of the chess position engine of TheOnly92/chess.go              *)
(* (bitboard.go, move.go, piece.go, bit.go).                               *)
(*                                                                         *)
(* Representation.  A uint64 bitboard is the set of the indices of its set *)
(* bits (a subset of 0..63): & is \cap, | is \cup, ^ is the symmetric      *)
(* difference, &^ is \ .  The castling-rights bitmask is the set of its    *)
(* flags.  A Zobrist hash is the set of the indices of the random-array    *)
(* entries XORed into it (the table's values are opaque, so two hashes are *)
(* equal iff the same entries went in an odd number of times).  A Go       *)
(* string is the sequence of its characters.  The *Bitboard receiver is a  *)
(* record with the struct's fields; a method that mutates the receiver is  *)
(* an operator from the record to the new record.                          *)
(***************************************************************************)
EXTENDS Integers, Sequences, FiniteSets, TLC

-----------------------------------------------------------------------------
(* Colours, piece types, castling flags                                    *)

White == 0
Black == 1
Other(color) == 1 - color

None == 0
Pawn == 1
Knight == 2
Bishop == 3
Rook == 4
Queen == 5
King == 6

PieceSymbols == <<"p", "n", "b", "r", "q", "k">>
FileNames == <<"a", "b", "c", "d", "e", "f", "g", "h">>
RankNames == <<"1", "2", "3", "4", "5", "6", "7", "8">>

CastlingNone == {}
CastlingWhiteKingSide == {"K"}
CastlingWhiteQueenSide == {"Q"}
CastlingBlackKingSide == {"k"}
CastlingBlackQueenSide == {"q"}
CastlingWhite == {"K", "Q"}
CastlingBlack == {"k", "q"}
Castling == {"K", "Q", "k", "q"}

-----------------------------------------------------------------------------
(* Squares and square masks                                                *)

SquareSet == 0..63
rankIndex(square) == square \div 8
fileIndex(square) == square % 8
Sq(file, rank) == 8 * rank + file
OnBoard(file, rank) == file \in 0..7 /\ rank \in 0..7

A1 == 0
B1 == 1
C1 == 2
D1 == 3
E1 == 4
F1 == 5
G1 == 6
H1 == 7
A8 == 56
B8 == 57
C8 == 58
D8 == 59
E8 == 60
F8 == 61
G8 == 62
H8 == 63

BBVoid == {}
BBAll == SquareSet
BBSquares == [s \in SquareSet |-> {s}]
BBRanks == [r \in 0..7 |-> {s \in SquareSet : rankIndex(s) = r}]
BBFiles == [f \in 0..7 |-> {s \in SquareSet : fileIndex(s) = f}]
BBRank1 == BBRanks[0]
BBRank2 == BBRanks[1]
BBRank4 == BBRanks[3]
BBRank5 == BBRanks[4]
BBRank7 == BBRanks[6]
BBRank8 == BBRanks[7]
BBFileH == BBFiles[7]
BBDarkSquares == {s \in SquareSet : (fileIndex(s) + rankIndex(s)) % 2 = 0}
BBLightSquares == SquareSet \ BBDarkSquares

\* The squares in the order of a FEN board field: a8..h8, a7..h7, ..., a1..h1.
Squares180 == [i \in 1..64 |-> Sq((i - 1) % 8, 7 - ((i - 1) \div 8))]
SquaresAsc == [i \in 1..64 |-> i - 1]
SquareNames == [s \in SquareSet |-> <<FileNames[fileIndex(s) + 1], RankNames[rankIndex(s) + 1]>>]

\* x ^ y on bitboards and on hashes.
Xor(x, y) == (x \ y) \cup (y \ x)

\* The concatenation ss[1] \o ss[2] \o ... of a sequence of sequences: what a
\* loop that appends ss[i] in its i-th iteration builds.
Concat(ss) ==
    LET RECURSIVE go(_, _)
        go(lo, hi) ==
            IF lo > hi THEN <<>>
            ELSE IF lo = hi THEN ss[lo]
            ELSE go(lo, (lo + hi) \div 2) \o go((lo + hi) \div 2 + 1, hi)
    IN go(1, Len(ss))

\* The set bits of a bitboard in the order of a bitScan loop (ascending).
ScanSeq(mask) ==
    Concat([i \in 1..64 |-> IF SquaresAsc[i] \in mask THEN <<SquaresAsc[i]>> ELSE <<>>])

popCount(mask) == Cardinality(mask)

\* fmt.Sprintf("%b", b): the binary digits of the value from its highest set
\* bit down to bit 0, "0" for the value 0.
BinaryLen(mask) == IF mask = {} THEN 1 ELSE (CHOOSE i \in mask : \A j \in mask : j <= i) + 1
Binary(mask) ==
    [i \in 1..BinaryLen(mask) |-> IF (BinaryLen(mask) - i) \in mask THEN "1" ELSE "0"]

\* strings.LastIndex(str, c) for a one-character c: the index, counted from
\* 0, of the last occurrence, or -1.
LastIndex(str, c) ==
    IF \E i \in 1..Len(str) : str[i] = c
    THEN (CHOOSE i \in 1..Len(str) : str[i] = c /\ \A j \in (i + 1)..Len(str) : str[j] # c) - 1
    ELSE -1

\* bitScan(b, n): str[:(len(str)-n)] panics when n is greater than len(str).
bitScan(b, n) ==
    IF Len(Binary(b)) - n < 0 THEN [panic |-> TRUE, result |-> -1]
    ELSE IF LastIndex(SubSeq(Binary(b), 1, Len(Binary(b)) - n), "1") = -1
    THEN [panic |-> FALSE, result |-> -1]
    ELSE [panic |-> FALSE,
          result |-> Len(Binary(b)) - LastIndex(SubSeq(Binary(b), 1, Len(Binary(b)) - n), "1") - 1]

\* popCount as the loop computes it: b & (b - 1) clears the lowest set bit.
RECURSIVE popCountLoop(_, _)
popCountLoop(b, count) ==
    IF b = {} THEN count
    ELSE popCountLoop(b \ {CHOOSE i \in b : \A j \in b : i <= j}, count + 1)

shiftUp(mask) == {s + 8 : s \in {t \in mask : rankIndex(t) < 7}}
shiftDown(mask) == {s - 8 : s \in {t \in mask : rankIndex(t) > 0}}
shiftLeft(mask) == {s - 1 : s \in {t \in mask : fileIndex(t) > 0}}
shiftRight(mask) == {s + 1 : s \in {t \in mask : fileIndex(t) < 7}}
shiftUpRight(mask) == {s + 9 : s \in {t \in mask : rankIndex(t) < 7 /\ fileIndex(t) < 7}}
shiftUpLeft(mask) == {s + 7 : s \in {t \in mask : rankIndex(t) < 7 /\ fileIndex(t) > 0}}
shiftDownLeft(mask) == {s - 9 : s \in {t \in mask : rankIndex(t) > 0 /\ fileIndex(t) > 0}}
shiftDownRight(mask) == {s - 7 : s \in {t \in mask : rankIndex(t) > 0 /\ fileIndex(t) < 7}}

-----------------------------------------------------------------------------
(* Attack tables                                                           *)

Offsets(square, deltas) ==
    {Sq(fileIndex(square) + d[1], rankIndex(square) + d[2]) :
        d \in {e \in deltas : OnBoard(fileIndex(square) + e[1], rankIndex(square) + e[2])}}

KnightDeltas == {<<1, 2>>, <<2, 1>>, <<2, -1>>, <<1, -2>>, <<-1, -2>>, <<-2, -1>>, <<-2, 1>>, <<-1, 2>>}
KingDeltas == {<<1, 0>>, <<1, 1>>, <<0, 1>>, <<-1, 1>>, <<-1, 0>>, <<-1, -1>>, <<0, -1>>, <<1, -1>>}

BBKnightAttacks == [s \in SquareSet |-> Offsets(s, KnightDeltas)]
BBKingAttacks == [s \in SquareSet |-> Offsets(s, KingDeltas)]

\* Indexed by colour, then square.
BBPawnAttacks ==
    [c \in 0..1 |-> [s \in SquareSet |->
        IF c = White THEN Offsets(s, {<<-1, 1>>, <<1, 1>>}) ELSE Offsets(s, {<<-1, -1>>, <<1, -1>>})]]
BBPawnF1 ==
    [c \in 0..1 |-> [s \in SquareSet |->
        IF c = White THEN Offsets(s, {<<0, 1>>}) ELSE Offsets(s, {<<0, -1>>})]]
BBPawnF2 ==
    [c \in 0..1 |-> [s \in SquareSet |->
        IF c = White
        THEN (IF rankIndex(s) = 1 THEN {s + 16} ELSE {})
        ELSE (IF rankIndex(s) = 6 THEN {s - 16} ELSE {})]]

\* The squares met from a square in one direction, nearest first.
Ray(square, df, dr) ==
    LET n == CHOOSE k \in 0..7 :
                /\ \A i \in 1..k : OnBoard(fileIndex(square) + i * df, rankIndex(square) + i * dr)
                /\ ~OnBoard(fileIndex(square) + (k + 1) * df, rankIndex(square) + (k + 1) * dr)
    IN [i \in 1..n |-> Sq(fileIndex(square) + i * df, rankIndex(square) + i * dr)]

RankRays == [s \in SquareSet |-> <<Ray(s, 1, 0), Ray(s, -1, 0)>>]
FileRays == [s \in SquareSet |-> <<Ray(s, 0, 1), Ray(s, 0, -1)>>]
R45Rays == [s \in SquareSet |-> <<Ray(s, 1, 1), Ray(s, -1, -1)>>]
L45Rays == [s \in SquareSet |-> <<Ray(s, -1, 1), Ray(s, 1, -1)>>]

\* The square permutations of the three rotated occupancy views.
SquaresL90 == [s \in SquareSet |-> 8 * fileIndex(s) + (7 - rankIndex(s))]
SquaresR45 == [s \in SquareSet |-> 8 * ((rankIndex(s) - fileIndex(s)) % 8) + fileIndex(s)]
SquaresL45 == [s \in SquareSet |-> 8 * ((rankIndex(s) + fileIndex(s)) % 8) + fileIndex(s)]

\* One slider-table lookup: the squares attacked along the two opposite rays
\* of a line, given the occupancy view of that line (view[s] is the bit of
\* square s in the view).  A ray stops at its first occupied square.
RayAttacks(ray, occ, view) ==
    {ray[i] : i \in {j \in 1..Len(ray) : \A k \in 1..(j - 1) : view[ray[k]] \notin occ}}
LineAttacks(rays, occ, view) ==
    RayAttacks(rays[1], occ, view) \cup RayAttacks(rays[2], occ, view)
Identity == [s \in SquareSet |-> s]

-----------------------------------------------------------------------------
(* Moves and stacks                                                        *)

NewMove(fromSquare, toSquare, promotion) ==
    [fromSquare |-> fromSquare, toSquare |-> toSquare, promotion |-> promotion]
\* The nil *Move.
NullMove == [null |-> TRUE]

Range(s) == {s[i] : i \in 1..Len(s)}
Top(stack) == stack[Len(stack)]
Drop(stack) == SubSeq(stack, 1, Len(stack) - 1)

\* m[k] of a Go map with integer values: an absent key reads as 0.
MapGet(m, k) == IF k \in DOMAIN m THEN m[k] ELSE 0
\* m[k] += d.  A Go map would keep a key whose count came back to 0; nothing
\* in the program iterates the map or tests a key's presence, so such a key
\* reads exactly like an absent one and is dropped here.
MapAdd(m, k, d) ==
    LET v == MapGet(m, k) + d
    IN IF v = 0
       THEN [x \in (DOMAIN m) \ {k} |-> m[x]]
       ELSE [x \in (DOMAIN m) \cup {k} |-> IF x = k THEN v ELSE m[x]]

-----------------------------------------------------------------------------
(* Position core                                                           *)

PieceTypeAt(b, square) == b.pieces[square]

\* The colour PieceAt, RemovePieceAt and CheckSquareColor read for a square.
ColorAt(b, square) == IF b.occupiedCo[Black] \cap BBSquares[square] # {} THEN Black ELSE White

\* Index of the (square, colour, kind) term in the random array.
HashIndex(pieceType, color, square) ==
    LET pieceIndex == IF color = Black THEN (pieceType - 1) * 2 ELSE (pieceType - 1) * 2 + 1
    IN 64 * pieceIndex + 8 * rankIndex(square) + fileIndex(square)

\* The bitboard of one piece type after mask was XORed / ORed into the type's board.
KindField(pieceType) ==
    CASE pieceType = Pawn -> "pawns"
      [] pieceType = Knight -> "knights"
      [] pieceType = Bishop -> "bishops"
      [] pieceType = Rook -> "rooks"
      [] pieceType = Queen -> "queens"
      [] OTHER -> "kings"

\* RemovePieceAt without the update of the L90 occupancy.
RemovePieceAtKeepingL90(b, square) ==
    LET pieceType == b.pieces[square]
        mask == BBSquares[square]
        color == ColorAt(b, square)
        f == KindField(pieceType)
    IN IF pieceType = None
       THEN b
       ELSE [b EXCEPT ![f] = Xor(@, mask),
                      !.pieces[square] = None,
                      !.occupied = Xor(@, mask),
                      !.occupiedCo[color] = Xor(@, mask),
                      !.occupiedR45 = Xor(@, BBSquares[SquaresR45[square]]),
                      !.occupiedL45 = Xor(@, BBSquares[SquaresL45[square]]),
                      !.incrementalZobristHash = Xor(@, {HashIndex(pieceType, color, square)})]
RemovePieceAt(b, square) ==
    LET pieceType == b.pieces[square]
        mask == BBSquares[square]
        color == ColorAt(b, square)
        f == KindField(pieceType)
    IN IF pieceType = None
       THEN b
       ELSE [b EXCEPT ![f] = Xor(@, mask),
                      !.pieces[square] = None,
                      !.occupied = Xor(@, mask),
                      !.occupiedCo[color] = Xor(@, mask),
                      !.occupiedL90 = Xor(@, BBSquares[SquaresL90[square]]),
                      !.occupiedR45 = Xor(@, BBSquares[SquaresR45[square]]),
                      !.occupiedL45 = Xor(@, BBSquares[SquaresL45[square]]),
                      !.incrementalZobristHash = Xor(@, {HashIndex(pieceType, color, square)})]

\* piece is <<pieceType, color>>.
\* SetPieceAt without the update of the incremental hash.
SetPieceAtKeepingHash(b0, square, pieceType, color) ==
    LET b == RemovePieceAt(b0, square)
        mask == BBSquares[square]
        f == KindField(pieceType)
    IN [b EXCEPT ![f] = @ \cup mask,
                 !.pieces[square] = pieceType,
                 !.kingSquares[color] = IF pieceType = King THEN square ELSE @,
                 !.occupied = Xor(@, mask),
                 !.occupiedCo[color] = Xor(@, mask),
                 !.occupiedL90 = Xor(@, BBSquares[SquaresL90[square]]),
                 !.occupiedR45 = Xor(@, BBSquares[SquaresR45[square]]),
                 !.occupiedL45 = Xor(@, BBSquares[SquaresL45[square]])]
SetPieceAt(b0, square, pieceType, color) ==
    LET b == RemovePieceAt(b0, square)
        mask == BBSquares[square]
        f == KindField(pieceType)
    IN [b EXCEPT ![f] = @ \cup mask,
                 !.pieces[square] = pieceType,
                 !.kingSquares[color] = IF pieceType = King THEN square ELSE @,
                 !.occupied = Xor(@, mask),
                 !.occupiedCo[color] = Xor(@, mask),
                 !.occupiedL90 = Xor(@, BBSquares[SquaresL90[square]]),
                 !.occupiedR45 = Xor(@, BBSquares[SquaresR45[square]]),
                 !.occupiedL45 = Xor(@, BBSquares[SquaresL45[square]]),
                 !.incrementalZobristHash = Xor(@, {HashIndex(pieceType, color, square)})]

KnightAttacksFrom(b, square) == BBKnightAttacks[square]
KingAttacksFrom(b, square) == BBKingAttacks[square]
RookAttacksFrom(b, square) ==
    LineAttacks(RankRays[square], b.occupied, Identity)
        \cup LineAttacks(FileRays[square], b.occupiedL90, SquaresL90)
BishopAttacksFrom(b, square) ==
    LineAttacks(R45Rays[square], b.occupiedR45, SquaresR45)
        \cup LineAttacks(L45Rays[square], b.occupiedL45, SquaresL45)
QueenAttacksFrom(b, square) == RookAttacksFrom(b, square) \cup BishopAttacksFrom(b, square)

PawnMovesFrom(b, square) ==
    LET f1 == BBPawnF1[b.turn][square] \ b.occupied
        f2 == IF f1 # {} THEN f1 \cup (BBPawnF2[b.turn][square] \ b.occupied) ELSE f1
    IN IF b.epSquare = 0
       THEN f2 \cup (BBPawnAttacks[b.turn][square] \cap b.occupiedCo[Other(b.turn)])
       ELSE f2 \cup (BBPawnAttacks[b.turn][square]
                        \cap (b.occupiedCo[Other(b.turn)] \cup BBSquares[b.epSquare]))

IsAttackedBy(b, color, square) ==
    \/ BBPawnAttacks[Other(color)][square] \cap (b.pawns \cup b.bishops) \cap b.occupiedCo[color] # {}
    \/ KnightAttacksFrom(b, square) \cap b.knights \cap b.occupiedCo[color] # {}
    \/ BishopAttacksFrom(b, square) \cap (b.bishops \cup b.queens) \cap b.occupiedCo[color] # {}
    \/ RookAttacksFrom(b, square) \cap (b.rooks \cup b.queens) \cap b.occupiedCo[color] # {}
    \/ KingAttacksFrom(b, square) \cap (b.kings \cup b.queens) \cap b.occupiedCo[color] # {}

\* An attacker mask that leaves the kings out.
AttackerMaskWithoutKings(b, color, square) ==
    ((BBPawnAttacks[Other(color)][square] \cap b.pawns)
        \cup (KnightAttacksFrom(b, square) \cap b.knights)
        \cup (BishopAttacksFrom(b, square) \cap (b.bishops \cup b.queens))
        \cup (RookAttacksFrom(b, square) \cap (b.rooks \cup b.queens)))
      \cap b.occupiedCo[color]
AttackerMask(b, color, square) ==
    ((BBPawnAttacks[Other(color)][square] \cap b.pawns)
        \cup (KnightAttacksFrom(b, square) \cap b.knights)
        \cup (BishopAttacksFrom(b, square) \cap (b.bishops \cup b.queens))
        \cup (RookAttacksFrom(b, square) \cap (b.rooks \cup b.queens))
        \cup (KingAttacksFrom(b, square) \cap b.kings))
      \cap b.occupiedCo[color]
\* Attackers: the mask wrapped in a SquareSet.
Attackers(b, color, square) == AttackerMask(b, color, square)


IsCheck(b) == IsAttackedBy(b, Other(b.turn), b.kingSquares[b.turn])
WasIntoCheck(b) == IsAttackedBy(b, b.turn, b.kingSquares[Other(b.turn)])

\* BoardZobristHash(array) with a non-nil array: recomputed over the occupied squares.
BoardZobristHashFull(b) ==
    {HashIndex(b.pieces[s], Black, s) : s \in b.occupiedCo[Black]}
        \cup {HashIndex(b.pieces[s], White, s) : s \in b.occupiedCo[White]}
\* BoardZobristHash(nil).
BoardZobristHash(b) == b.incrementalZobristHash

\* The castling, en-passant and turn terms ZobristHash XORs into the board hash.
DerivedTerms(b) ==
    LET up == IF b.turn = White THEN shiftDown(BBSquares[b.epSquare]) ELSE shiftUp(BBSquares[b.epSquare])
        epMask == shiftLeft(up) \cup shiftRight(up)
    IN (IF b.castlingRights \cap CastlingWhiteKingSide # {} THEN {768} ELSE {})
       \cup (IF b.castlingRights \cap CastlingWhiteQueenSide # {} THEN {769} ELSE {})
       \cup (IF b.castlingRights \cap CastlingBlackKingSide # {} THEN {770} ELSE {})
       \cup (IF b.castlingRights \cap CastlingBlackQueenSide # {} THEN {771} ELSE {})
       \cup (IF b.epSquare > 0 /\ epMask \cap b.pawns \cap b.occupiedCo[b.turn] # {}
             THEN {772 + fileIndex(b.epSquare)} ELSE {})
       \cup (IF b.turn = White THEN {780} ELSE {})
\* ZobristHash(nil).
ZobristHash(b) == Xor(BoardZobristHash(b), DerivedTerms(b))

\* Clear(): every field is assigned, so the result does not depend on the receiver.
Cleared ==
    LET e == [pawns |-> BBVoid, knights |-> BBVoid, bishops |-> BBVoid, rooks |-> BBVoid,
              queens |-> BBVoid, kings |-> BBVoid,
              occupiedCo |-> [c \in 0..1 |-> BBVoid], occupied |-> BBVoid,
              occupiedL90 |-> BBVoid, occupiedL45 |-> BBVoid, occupiedR45 |-> BBVoid,
              kingSquares |-> [c \in 0..1 |-> IF c = White THEN E1 ELSE E8],
              pieces |-> [s \in SquareSet |-> None],
              epSquare |-> 0, castlingRights |-> CastlingNone, turn |-> White,
              fullMoveNumber |-> 1, halfMoveClock |-> 0,
              halfMoveClockStack |-> <<>>, capturedPieceStack |-> <<>>,
              castlingRightStack |-> <<>>, epSquareStack |-> <<>>, moveStack |-> <<>>,
              incrementalZobristHash |-> {}, transpositions |-> <<>>]
        h == [e EXCEPT !.incrementalZobristHash = BoardZobristHashFull(e)]
    IN [h EXCEPT !.transpositions = MapAdd(<<>>, ZobristHash(h), 1)]
Clear(b) == Cleared

\* Reset(): the standard initial position.
Fresh ==
    LET pawns == BBRank2 \cup BBRank7
        knights == {B1, G1, B8, G8}
        bishops == {C1, F1, C8, F8}
        rooks == {A1, H1, A8, H8}
        queens == {D1, D8}
        kings == {E1, E8}
        occupied == BBRank1 \cup BBRank2 \cup BBRank7 \cup BBRank8
        e == [Cleared EXCEPT
                !.pawns = pawns, !.knights = knights, !.bishops = bishops,
                !.rooks = rooks, !.queens = queens, !.kings = kings,
                !.occupiedCo = [c \in 0..1 |-> IF c = White THEN BBRank1 \cup BBRank2
                                                             ELSE BBRank7 \cup BBRank8],
                !.occupied = occupied,
                !.pieces = [s \in SquareSet |->
                              IF s \in pawns THEN Pawn
                              ELSE IF s \in knights THEN Knight
                              ELSE IF s \in bishops THEN Bishop
                              ELSE IF s \in rooks THEN Rook
                              ELSE IF s \in queens THEN Queen
                              ELSE IF s \in kings THEN King
                              ELSE None],
                !.epSquare = 0, !.castlingRights = Castling, !.turn = White,
                !.fullMoveNumber = 1, !.halfMoveClock = 0,
                !.occupiedL90 = {SquaresL90[s] : s \in occupied},
                !.occupiedR45 = {SquaresR45[s] : s \in occupied},
                !.occupiedL45 = {SquaresL45[s] : s \in occupied}]
        h == [e EXCEPT !.incrementalZobristHash = BoardZobristHashFull(e)]
    IN [h EXCEPT !.transpositions = MapAdd(<<>>, ZobristHash(h), 1)]
Reset(b) == Fresh

-----------------------------------------------------------------------------
(* Make / unmake                                                           *)

AbsDiff(x, y) == IF x - y < 0 THEN y - x ELSE x - y

\* The castling rights after a move from fromSquare to toSquare (an else-if chain).
RevokeCastling(rights, fromSquare, toSquare) ==
    IF fromSquare = E1 THEN rights \ CastlingWhite
    ELSE IF fromSquare = E8 THEN rights \ CastlingBlack
    ELSE IF fromSquare = A1 \/ toSquare = A1 THEN rights \ CastlingWhiteQueenSide
    ELSE IF fromSquare = A8 \/ toSquare = A8 THEN rights \ CastlingBlackQueenSide
    ELSE IF fromSquare = H1 \/ toSquare = H1 THEN rights \ CastlingWhiteKingSide
    ELSE IF fromSquare = H8 \/ toSquare = H8 THEN rights \ CastlingBlackKingSide
    ELSE rights

\* The rook relocation of Push for a king move (pieceType = King).
CastleRook(b, move) ==
    IF move.fromSquare = E1 /\ move.toSquare = G1
    THEN RemovePieceAt(SetPieceAt(b, F1, Rook, White), H1)
    ELSE IF move.fromSquare = E1 /\ move.toSquare = C1
    THEN RemovePieceAt(SetPieceAt(b, D1, Rook, White), A1)
    ELSE IF move.fromSquare = E8 /\ move.toSquare = G8
    THEN RemovePieceAt(SetPieceAt(b, F8, Rook, Black), H8)
    ELSE IF move.fromSquare = E8 /\ move.toSquare = C8
    THEN RemovePieceAt(SetPieceAt(b, D8, Rook, Black), A8)
    ELSE b

\* The rook relocation of Pop for a king move (piece = King).
UncastleRook(b, move) ==
    IF move.fromSquare = E1 /\ move.toSquare = G1
    THEN SetPieceAt(RemovePieceAt(b, F1), H1, Rook, White)
    ELSE IF move.fromSquare = E1 /\ move.toSquare = C1
    THEN SetPieceAt(RemovePieceAt(b, D1), A1, Rook, White)
    ELSE IF move.fromSquare = E8 /\ move.toSquare = G8
    THEN SetPieceAt(RemovePieceAt(b, F8), H8, Rook, Black)
    ELSE IF move.fromSquare = E8 /\ move.toSquare = C8
    THEN SetPieceAt(RemovePieceAt(b, D8), A8, Rook, Black)
    ELSE b

\* A Push that keeps no en-passant square for Pop.
PushFrameWithoutEpSquare(b, move) ==
    LET capturedPiece == IF move = NullMove THEN None ELSE PieceTypeAt(b, move.toSquare)
    IN [b EXCEPT !.fullMoveNumber = IF b.turn = Black THEN @ + 1 ELSE @,
                 !.halfMoveClockStack = Append(@, b.halfMoveClock),
                 !.castlingRightStack = Append(@, b.castlingRights),
                 !.capturedPieceStack = Append(@, capturedPiece),
                 !.moveStack = Append(@, move)]
\* Push, up to and including the five stack pushes and the full-move increment.
PushFrame(b, move) ==
    LET capturedPiece == IF move = NullMove THEN None ELSE PieceTypeAt(b, move.toSquare)
    IN [b EXCEPT !.fullMoveNumber = IF b.turn = Black THEN @ + 1 ELSE @,
                 !.halfMoveClockStack = Append(@, b.halfMoveClock),
                 !.castlingRightStack = Append(@, b.castlingRights),
                 !.capturedPieceStack = Append(@, capturedPiece),
                 !.epSquareStack = Append(@, b.epSquare),
                 !.moveStack = Append(@, move)]

Push(b0, move) ==
    LET b1 == PushFrame(b0, move)
    IN IF move = NullMove
       THEN [b1 EXCEPT !.turn = Other(@), !.epSquare = 0, !.halfMoveClock = @ + 1]
       ELSE
         LET capturedPiece == Top(b1.capturedPieceStack)
             fromType == PieceTypeAt(b1, move.fromSquare)
             pieceType == IF move.promotion # None THEN move.promotion ELSE fromType
             diff == AbsDiff(move.toSquare, move.fromSquare)
             b2 == [b1 EXCEPT !.halfMoveClock =
                        IF fromType = Pawn \/ capturedPiece # None THEN 0 ELSE @ + 1]
             b3 == RemovePieceAt(b2, move.fromSquare)
             \* Remove pawns captured en-passant.
             b4 == IF pieceType = Pawn /\ diff \in {7, 9}
                        /\ b3.occupied \cap BBSquares[move.toSquare] = {}
                   THEN RemovePieceAt(b3, IF b3.turn = White THEN move.toSquare - 8
                                                            ELSE move.toSquare + 8)
                   ELSE b3
             b5 == [b4 EXCEPT
                      !.epSquare = IF pieceType = Pawn /\ diff = 16
                                   THEN (IF b4.turn = White THEN move.toSquare - 8
                                                            ELSE move.toSquare + 8)
                                   ELSE 0,
                      !.castlingRights = RevokeCastling(@, move.fromSquare, move.toSquare)]
             b6 == IF pieceType = King THEN CastleRook(b5, move) ELSE b5
             b7 == SetPieceAt(b6, move.toSquare, pieceType, b6.turn)
             b8 == [b7 EXCEPT !.turn = Other(@)]
         IN [b8 EXCEPT !.transpositions = MapAdd(@, ZobristHash(b8), 1)]

\* Pop: the position after the undo (the returned move is Top(b.moveStack)).
Pop(b0) ==
    LET move == Top(b0.moveStack)
        capturedPiece == Top(b0.capturedPieceStack)
        capturedPieceColor == b0.turn
        b1 == [b0 EXCEPT
                 !.moveStack = Drop(@),
                 !.transpositions = MapAdd(@, ZobristHash(b0), -1),
                 !.fullMoveNumber = IF b0.turn = White THEN @ - 1 ELSE @,
                 !.halfMoveClock = Top(b0.halfMoveClockStack),
                 !.halfMoveClockStack = Drop(@),
                 !.castlingRights = Top(b0.castlingRightStack),
                 !.castlingRightStack = Drop(@),
                 !.epSquare = Top(b0.epSquareStack),
                 !.epSquareStack = Drop(@),
                 !.capturedPieceStack = Drop(@)]
    IN IF move = NullMove
       THEN [b1 EXCEPT !.turn = Other(@)]
       ELSE
         LET piece == IF move.promotion # None THEN Pawn ELSE PieceTypeAt(b1, move.toSquare)
             b2 == SetPieceAt(b1, move.fromSquare, piece, Other(b1.turn))
             b3 == IF capturedPiece > None
                   THEN SetPieceAt(b2, move.toSquare, capturedPiece, capturedPieceColor)
                   ELSE LET r == RemovePieceAt(b2, move.toSquare)
                        IN IF piece = Pawn /\ AbsDiff(move.fromSquare, move.toSquare) \in {7, 9}
                           THEN (IF r.turn = White
                                 THEN SetPieceAt(r, move.toSquare + 8, Pawn, White)
                                 ELSE SetPieceAt(r, move.toSquare - 8, Pawn, Black))
                           ELSE r
             b4 == IF piece = King THEN UncastleRook(b3, move) ELSE b3
         IN [b4 EXCEPT !.turn = Other(@)]

Peek(b) == Top(b.moveStack)
\* The receiver after Peek(): the move is popped off the move stack and pushed back.
PeekLosingMove(b) ==
    [b EXCEPT !.moveStack = Drop(@)]
PeekBoard(b) ==
    [b EXCEPT !.moveStack = Append(Drop(@), Top(@))]

\* The one element of a set of one element: a value that is computed once
\* and then read several times.
The(set) == CHOOSE x \in set : TRUE

\* IsIntoCheck(move): the returned flag, and the receiver after the trial Push and Pop.
IsIntoCheckRun(b, move) ==
    The({[isCheck |-> WasIntoCheck(pushed), b |-> Pop(pushed)] : pushed \in {Push(b, move)}})
IsIntoCheck(b, move) == WasIntoCheck(Push(b, move))

-----------------------------------------------------------------------------
(* Move generation                                                         *)

\* The moves appended for one pawn destination: four promotions on lastRank, else one move.
PawnAppend(fromSquare, toSquare, lastRank) ==
    IF rankIndex(toSquare) # lastRank
    THEN <<NewMove(fromSquare, toSquare, None)>>
    ELSE <<NewMove(fromSquare, toSquare, Queen), NewMove(fromSquare, toSquare, Knight),
           NewMove(fromSquare, toSquare, Rook), NewMove(fromSquare, toSquare, Bishop)>>

\* Castling moves that are offered although the king would pass over an
\* attacked square.
CastlingMovesOverAttacked(b) ==
    IF b.turn = White
    THEN (IF /\ b.castlingRights \cap CastlingWhiteKingSide # {}
             /\ {F1, G1} \cap b.occupied = {}
             /\ ~IsAttackedBy(b, Black, E1)
             /\ ~IsAttackedBy(b, Black, G1)
          THEN <<NewMove(E1, G1, None)>> ELSE <<>>)
         \o (IF /\ b.castlingRights \cap CastlingWhiteQueenSide # {}
                /\ {B1, C1, D1} \cap b.occupied = {}
                /\ ~IsAttackedBy(b, Black, C1)
                /\ ~IsAttackedBy(b, Black, E1)
             THEN <<NewMove(E1, C1, None)>> ELSE <<>>)
    ELSE (IF /\ b.castlingRights \cap CastlingBlackKingSide # {}
             /\ {F8, G8} \cap b.occupied = {}
             /\ ~IsAttackedBy(b, White, E8)
             /\ ~IsAttackedBy(b, White, G8)
          THEN <<NewMove(E8, G8, None)>> ELSE <<>>)
         \o (IF /\ b.castlingRights \cap CastlingBlackQueenSide # {}
                /\ {B8, C8, D8} \cap b.occupied = {}
                /\ ~IsAttackedBy(b, White, C8)
                /\ ~IsAttackedBy(b, White, E8)
             THEN <<NewMove(E8, C8, None)>> ELSE <<>>)
\* The castling moves offered to the side to move.
CastlingMoves(b) ==
    IF b.turn = White
    THEN (IF /\ b.castlingRights \cap CastlingWhiteKingSide # {}
             /\ {F1, G1} \cap b.occupied = {}
             /\ ~IsAttackedBy(b, Black, E1) /\ ~IsAttackedBy(b, Black, F1)
             /\ ~IsAttackedBy(b, Black, G1)
          THEN <<NewMove(E1, G1, None)>> ELSE <<>>)
         \o (IF /\ b.castlingRights \cap CastlingWhiteQueenSide # {}
                /\ {B1, C1, D1} \cap b.occupied = {}
                /\ ~IsAttackedBy(b, Black, C1) /\ ~IsAttackedBy(b, Black, D1)
                /\ ~IsAttackedBy(b, Black, E1)
             THEN <<NewMove(E1, C1, None)>> ELSE <<>>)
    ELSE (IF /\ b.castlingRights \cap CastlingBlackKingSide # {}
             /\ {F8, G8} \cap b.occupied = {}
             /\ ~IsAttackedBy(b, White, E8) /\ ~IsAttackedBy(b, White, F8)
             /\ ~IsAttackedBy(b, White, G8)
          THEN <<NewMove(E8, G8, None)>> ELSE <<>>)
         \o (IF /\ b.castlingRights \cap CastlingBlackQueenSide # {}
                /\ {B8, C8, D8} \cap b.occupied = {}
                /\ ~IsAttackedBy(b, White, C8) /\ ~IsAttackedBy(b, White, D8)
                /\ ~IsAttackedBy(b, White, E8)
             THEN <<NewMove(E8, C8, None)>> ELSE <<>>)

\* The four pawn target masks of the side to move, as both routines compute them:
\* en-passant sources, the two capture masks, single pushes, double pushes.
\* A move generation without en-passant movers.
NoEpSources(b) ==
    {}
PawnEpSources(b) ==
    IF b.epSquare > 0
    THEN BBPawnAttacks[Other(b.turn)][b.epSquare] \cap b.pawns \cap b.occupiedCo[b.turn]
    ELSE {}
PawnCaptures1(b) ==
    LET movers == b.pawns \cap b.occupiedCo[b.turn]
    IN IF b.turn = White THEN shiftUpRight(movers) \cap b.occupiedCo[Black]
                         ELSE shiftDownLeft(movers) \cap b.occupiedCo[White]
PawnCaptures2(b) ==
    LET movers == b.pawns \cap b.occupiedCo[b.turn]
    IN IF b.turn = White THEN shiftUpLeft(movers) \cap b.occupiedCo[Black]
                         ELSE shiftDownRight(movers) \cap b.occupiedCo[White]
PawnSingle(b) ==
    LET movers == b.pawns \cap b.occupiedCo[b.turn]
    IN IF b.turn = White THEN shiftUp(movers) \ b.occupied ELSE shiftDown(movers) \ b.occupied
PawnDouble(b) ==
    IF b.turn = White THEN (shiftUp(PawnSingle(b)) \cap BBRank4) \ b.occupied
                      ELSE (shiftDown(PawnSingle(b)) \cap BBRank5) \ b.occupied

PawnMoves(b) ==
    LET w == b.turn = White
        lastRank == IF w THEN 7 ELSE 0
        sgn == IF w THEN 1 ELSE -1
        ep == ScanSeq(PawnEpSources(b))
        c1 == ScanSeq(PawnCaptures1(b))
        c2 == ScanSeq(PawnCaptures2(b))
        f1 == ScanSeq(PawnSingle(b))
        f2 == ScanSeq(PawnDouble(b))
    IN Concat([i \in 1..Len(ep) |-> <<NewMove(ep[i], b.epSquare, None)>>])
       \o Concat([i \in 1..Len(c1) |-> PawnAppend(c1[i] - sgn * 9, c1[i], lastRank)])
       \o Concat([i \in 1..Len(c2) |-> PawnAppend(c2[i] - sgn * 7, c2[i], lastRank)])
       \o Concat([i \in 1..Len(f1) |-> PawnAppend(f1[i] - sgn * 8, f1[i], lastRank)])
       \o Concat([i \in 1..Len(f2) |-> <<NewMove(f2[i] - sgn * 16, f2[i], None)>>])

\* The attack set of a piece of the given type standing on square.
AttacksFrom(b, pieceType, square) ==
    CASE pieceType = Knight -> KnightAttacksFrom(b, square)
      [] pieceType = Bishop -> BishopAttacksFrom(b, square)
      [] pieceType = Rook -> RookAttacksFrom(b, square)
      [] pieceType = Queen -> QueenAttacksFrom(b, square)
      [] OTHER -> KingAttacksFrom(b, square)

\* The moves of the pieces standing on movers (all of one type).
PieceMovesFrom(b, pieceType, fromSquare) ==
    LET targets == ScanSeq(AttacksFrom(b, pieceType, fromSquare) \ b.occupiedCo[b.turn])
    IN [i \in 1..Len(targets) |-> NewMove(fromSquare, targets[i], None)]
PieceMoves(b, pieceType, movers) ==
    LET sources == ScanSeq(movers)
    IN Concat([i \in 1..Len(sources) |-> PieceMovesFrom(b, pieceType, sources[i])])

GeneratePseudoLegalMoves(b, castling, pawns, knights, bishops, rooks, queens, king) ==
    (IF castling THEN CastlingMoves(b) ELSE <<>>)
    \o (IF pawns THEN PawnMoves(b) ELSE <<>>)
    \o (IF knights THEN PieceMoves(b, Knight, b.knights \cap b.occupiedCo[b.turn]) ELSE <<>>)
    \o (IF bishops THEN PieceMoves(b, Bishop, b.bishops \cap b.occupiedCo[b.turn]) ELSE <<>>)
    \o (IF rooks THEN PieceMoves(b, Rook, b.rooks \cap b.occupiedCo[b.turn]) ELSE <<>>)
    \o (IF queens THEN PieceMoves(b, Queen, b.queens \cap b.occupiedCo[b.turn]) ELSE <<>>)
    \o (IF king THEN PieceMoves(b, King, {b.kingSquares[b.turn]}) ELSE <<>>)

AllPseudoLegal(b) == GeneratePseudoLegalMoves(b, TRUE, TRUE, TRUE, TRUE, TRUE, TRUE, TRUE)

\* The sum of popCount over the moves of the pieces standing on movers.
PieceMoveCount(b, pieceType, movers) ==
    LET RECURSIVE sum(_)
        sum(S) == IF S = {} THEN 0
                  ELSE LET f == CHOOSE x \in S : TRUE
                       IN popCount(AttacksFrom(b, pieceType, f) \ b.occupiedCo[b.turn])
                              + sum(S \ {f})
    IN sum(movers)

PseudoLegalMoveCount(b) ==
    LET lastRank == IF b.turn = White THEN BBRank8 ELSE BBRank1
    IN Len(CastlingMoves(b))
       + popCount(PawnEpSources(b))
       + popCount(PawnCaptures1(b) \cap lastRank) * 3 + popCount(PawnCaptures1(b))
       + popCount(PawnCaptures2(b) \cap lastRank) * 3 + popCount(PawnCaptures2(b))
       + popCount(PawnSingle(b) \cap lastRank) * 3
       + (IF b.turn = White THEN popCount(PawnSingle(b)) ELSE 0)
       + popCount(PawnDouble(b))
       + PieceMoveCount(b, Knight, b.knights \cap b.occupiedCo[b.turn])
       + PieceMoveCount(b, Bishop, b.bishops \cap b.occupiedCo[b.turn])
       + PieceMoveCount(b, Rook, b.rooks \cap b.occupiedCo[b.turn])
       + PieceMoveCount(b, Queen, b.queens \cap b.occupiedCo[b.turn])
       + popCount(KingAttacksFrom(b, b.kingSquares[b.turn]) \ b.occupiedCo[b.turn])

\* GenerateLegalMoves: the pseudo-legal moves are listed first, then each is tried
\* with IsIntoCheck on the receiver as the earlier trials left it.  The result is
\* [moves |-> the legal moves, b |-> the receiver afterwards].
RECURSIVE FilterLegalFrom(_, _, _, _)
\* the move is kept unless its trial left the king attacked
FilterLegalKept(trial, move) ==
    [moves |-> IF trial.isCheck THEN <<>> ELSE <<move>>, b |-> trial.b]
\* the trials of the second half follow on the receiver the first half left
FilterLegalBoth(l, pseudo, mid, hi) ==
    The({[moves |-> l.moves \o r.moves, b |-> r.b] :
            r \in {FilterLegalFrom(l.b, pseudo, mid + 1, hi)}})
\* the trials of pseudo[lo..hi], in order, starting from the receiver cur
FilterLegalFrom(cur, pseudo, lo, hi) ==
    IF lo > hi THEN [moves |-> <<>>, b |-> cur]
    ELSE IF lo = hi
    THEN The({FilterLegalKept(trial, pseudo[lo]) : trial \in {IsIntoCheckRun(cur, pseudo[lo])}})
    ELSE The({FilterLegalBoth(l, pseudo, (lo + hi) \div 2, hi) :
                 l \in {FilterLegalFrom(cur, pseudo, lo, (lo + hi) \div 2)}})
FilterLegal(b, pseudo) == FilterLegalFrom(b, pseudo, 1, Len(pseudo))
\* A GenerateLegalMoves that leaves the pawn moves out.
GenerateWithoutPawns(b, castling, pawns, knights, bishops, rooks, queens, kings) ==
    FilterLegal(b, GeneratePseudoLegalMoves(b, castling, FALSE, knights, bishops, rooks, queens, kings))
GenerateLegalMovesRun(b, castling, pawns, knights, bishops, rooks, queens, kings) ==
    FilterLegal(b, GeneratePseudoLegalMoves(b, castling, pawns, knights, bishops, rooks, queens, kings))
GenerateLegalMoves(b, castling, pawns, knights, bishops, rooks, queens, kings) ==
    GenerateLegalMovesRun(b, castling, pawns, knights, bishops, rooks, queens, kings).moves
AllLegal(b) == GenerateLegalMoves(b, TRUE, TRUE, TRUE, TRUE, TRUE, TRUE, TRUE)

IsPseudoLegal(b, move) ==
    IF move = NullMove THEN FALSE
    ELSE
      LET piece == PieceTypeAt(b, move.fromSquare)
          fromMask == BBSquares[move.fromSquare]
          toMask == BBSquares[move.toSquare]
          w == b.turn = White
      IN IF piece = None THEN FALSE
         ELSE IF b.occupiedCo[b.turn] \cap fromMask = {} THEN FALSE
         ELSE IF b.occupiedCo[b.turn] \cap toMask # {} THEN FALSE
         ELSE IF move.promotion > None
                 /\ (\/ piece # Pawn
                     \/ (w /\ rankIndex(move.toSquare) # 7)
                     \/ (~w /\ rankIndex(move.toSquare) # 0)) THEN FALSE
         ELSE IF piece = King THEN
              \/ /\ w /\ move.fromSquare = E1
                 /\ \/ /\ move.toSquare = G1
                       /\ b.castlingRights \cap CastlingWhiteKingSide # {}
                       /\ {F1, G1} \cap b.occupied = {}
                    \/ /\ move.toSquare = C1
                       /\ b.castlingRights \cap CastlingWhiteQueenSide # {}
                       /\ {B1, C1, D1} \cap b.occupied = {}
              \/ /\ ~w /\ move.fromSquare = E8
                 /\ \/ /\ move.toSquare = G8
                       /\ b.castlingRights \cap CastlingBlackKingSide # {}
                       /\ {F8, G8} \cap b.occupied = {}
                    \/ /\ move.toSquare = C8
                       /\ b.castlingRights \cap CastlingBlackQueenSide # {}
                       /\ {B8, C8, D8} \cap b.occupied = {}
              \/ KingAttacksFrom(b, move.fromSquare) \cap toMask # {}
         ELSE IF piece = Pawn THEN
              IF move.promotion = None
                 /\ ((w /\ rankIndex(move.toSquare) = 7) \/ (~w /\ rankIndex(move.toSquare) = 0))
              THEN FALSE
              ELSE PawnMovesFrom(b, move.fromSquare) \cap toMask # {}
         ELSE AttacksFrom(b, piece, move.fromSquare) \cap toMask # {}

IsLegal(b, move) == IsPseudoLegal(b, move) /\ ~IsIntoCheck(b, move)

\* The queries as calls with any argument: [panic |-> the call panicked with an
\* index out of range, result |-> the value returned, b |-> the receiver
\* afterwards].  b.pieces has 64 entries and is indexed by move.fromSquare
\* first; BBSquares is indexed by both squares once the source holds a piece.
IsPseudoLegalCall(b, move) ==
    IF move = NullMove THEN [panic |-> FALSE, result |-> FALSE, b |-> b]
    ELSE IF move.fromSquare \notin SquareSet THEN [panic |-> TRUE, result |-> FALSE, b |-> b]
    ELSE IF PieceTypeAt(b, move.fromSquare) = None THEN [panic |-> FALSE, result |-> FALSE, b |-> b]
    ELSE IF move.toSquare \notin SquareSet THEN [panic |-> TRUE, result |-> FALSE, b |-> b]
    ELSE [panic |-> FALSE, result |-> IsPseudoLegal(b, move), b |-> b]

\* IsLegal: IsIntoCheck pushes and pops the move when it is pseudo-legal.
IsLegalChecked(trial) ==
    [panic |-> FALSE, result |-> ~trial.isCheck, b |-> trial.b]
IsLegalAfter(pseudo, move) ==
    IF pseudo.panic \/ ~pseudo.result THEN pseudo
    ELSE IsLegalChecked(IsIntoCheckRun(pseudo.b, move))
IsLegalCall(b, move) == IsLegalAfter(IsPseudoLegalCall(b, move), move)

\* Status, the test that sets StatusBadCastlingRights: a right is set whose
\* king is not on its home square or whose corner holds no rook of the colour.
StatusBadCastlingRights(b) ==
    \/ /\ b.castlingRights \cap CastlingWhite # {}
       /\ \/ b.kingSquares[White] # E1
          \/ /\ b.castlingRights \cap CastlingWhiteQueenSide # {}
             /\ BBSquares[A1] \cap b.occupiedCo[White] \cap b.rooks = {}
          \/ /\ b.castlingRights \cap CastlingWhiteKingSide # {}
             /\ BBSquares[H1] \cap b.occupiedCo[White] \cap b.rooks = {}
    \/ /\ b.castlingRights \cap CastlingBlack # {}
       /\ \/ b.kingSquares[Black] # E8
          \/ /\ b.castlingRights \cap CastlingBlackQueenSide # {}
             /\ BBSquares[A8] \cap b.occupiedCo[Black] \cap b.rooks = {}
          \/ /\ b.castlingRights \cap CastlingBlackKingSide # {}
             /\ BBSquares[H8] \cap b.occupiedCo[Black] \cap b.rooks = {}

\* IsAttackedBy: BBPawnAttacks[color^1] has 64 entries and is indexed by square.
IsAttackedByCall(b, color, square) ==
    IF square \notin SquareSet THEN [panic |-> TRUE, result |-> FALSE, b |-> b]
    ELSE [panic |-> FALSE, result |-> IsAttackedBy(b, color, square), b |-> b]

-----------------------------------------------------------------------------
(* Text: a string is the sequence of its one-character strings             *)

Digits == <<"0", "1", "2", "3", "4", "5", "6", "7", "8", "9">>
DigitChars == Range(Digits)
DigitVal(c) == (CHOOSE i \in 1..10 : Digits[i] = c) - 1
UpperSymbols == <<"P", "N", "B", "R", "Q", "K">>
Whitespace == {" ", "\t", "\n", "\r"}

\* strconv.Itoa.
Itoa(n) ==
    LET RECURSIVE digits(_)
        digits(k) == IF k < 10 THEN <<Digits[k + 1]>> ELSE digits(k \div 10) \o <<Digits[(k % 10) + 1]>>
    IN IF n < 0 THEN <<"-">> \o digits(-n) ELSE digits(n)

\* strconv.Atoi: an optional sign, then one or more decimal digits.
Atoi(s) ==
    LET body == IF s # <<>> /\ s[1] \in {"+", "-"} THEN Tail(s) ELSE s
        RECURSIVE val(_)
        val(k) == IF k = 0 THEN 0 ELSE 10 * val(k - 1) + DigitVal(body[k])
    IN IF body = <<>> \/ \E i \in 1..Len(body) : body[i] \notin DigitChars
       THEN [err |-> TRUE, val |-> 0]
       ELSE [err |-> FALSE, val |-> IF s[1] = "-" THEN 0 - val(Len(body)) ELSE val(Len(body))]

\* The elements of the set S of integers in ascending order, S within lo..hi.
Ascending(S, lo, hi) ==
    Concat([i \in 1..(hi - lo + 1) |-> IF lo + i - 1 \in S THEN <<lo + i - 1>> ELSE <<>>])

\* strings.Fields: the maximal runs of non-whitespace characters.
Fields(s) ==
    LET starts == Ascending({i \in 1..Len(s) :
                      s[i] \notin Whitespace /\ (i = 1 \/ s[i - 1] \in Whitespace)},
                            1, Len(s))
        ends == Ascending({i \in 1..Len(s) :
                      s[i] \notin Whitespace /\ (i = Len(s) \/ s[i + 1] \in Whitespace)},
                          1, Len(s))
    IN [k \in 1..Len(starts) |-> SubSeq(s, starts[k], ends[k])]

\* strings.Split(s, sep) for a one-character separator: the pieces between
\* the separators, empty pieces included.
Split(s, sep) ==
    LET cuts == <<0>> \o Ascending({i \in 1..Len(s) : s[i] = sep}, 1, Len(s))
                     \o <<Len(s) + 1>>
    IN [k \in 1..(Len(cuts) - 1) |-> SubSeq(s, cuts[k] + 1, cuts[k + 1] - 1)]

\* strings.Join(parts, sep).
Join(parts, sep) ==
    Concat([k \in 1..Len(parts) |-> (IF k > 1 THEN sep ELSE <<>>) \o parts[k]])

\* The index of name in SquareNames, or 0 when it is no square name (the loops
\* over SquareNames leave the zero value of the variable).
SquareIndex(name) ==
    IF \E s \in SquareSet : SquareNames[s] = name
    THEN CHOOSE s \in SquareSet : SquareNames[s] = name
    ELSE 0

\* Piece.String of the piece PieceAt returns for an occupied square.
PieceString(b, square) ==
    IF ColorAt(b, square) = White
    THEN UpperSymbols[PieceTypeAt(b, square)]
    ELSE PieceSymbols[PieceTypeAt(b, square)]

\* PieceFromSymbol: <<pieceType, color>> of a piece letter.
PieceFromSymbol(c) ==
    IF c \in Range(PieceSymbols)
    THEN <<CHOOSE t \in 1..6 : PieceSymbols[t] = c, Black>>
    ELSE <<CHOOSE t \in 1..6 : UpperSymbols[t] = c, White>>
PieceLetters == Range(PieceSymbols) \cup Range(UpperSymbols)

-----------------------------------------------------------------------------
(* FEN                                                                     *)

\* The text Epd appends for one rank of the board field (the empty counter is
\* flushed at file h, so each rank is rendered on its own).
EpdRank(b, rank) ==
    LET run(file) == Cardinality({g \in 0..(file - 1) :
                        \A h \in g..(file - 1) : PieceTypeAt(b, Sq(h, rank)) = None})
        flush(n) == IF n > 0 THEN Itoa(n) ELSE <<>>
    IN Concat([i \in 1..8 |->
                  LET file == i - 1
                  IN (IF PieceTypeAt(b, Sq(file, rank)) = None
                      THEN (IF file = 7 THEN flush(run(file) + 1) ELSE <<>>)
                      ELSE flush(run(file)) \o <<PieceString(b, Sq(file, rank))>>)
                     \o (IF file = 7 /\ Sq(file, rank) # H1 THEN <<"/">> ELSE <<>>)])

\* The letters Epd writes for a non-empty set of castling rights.
CastlingText(rights) ==
    (IF rights \cap CastlingWhiteKingSide # {} THEN <<"K">> ELSE <<>>)
    \o (IF rights \cap CastlingWhiteQueenSide # {} THEN <<"Q">> ELSE <<>>)
    \o (IF rights \cap CastlingBlackKingSide # {} THEN <<"k">> ELSE <<>>)
    \o (IF rights \cap CastlingBlackQueenSide # {} THEN <<"q">> ELSE <<>>)

\* Epd(nil): board, turn, castling rights and en-passant square.
Epd(b) ==
    Concat([i \in 1..8 |-> EpdRank(b, 8 - i)])
    \o <<" ">> \o (IF b.turn = White THEN <<"w">> ELSE <<"b">>)
    \o <<" ">>
    \o (IF b.castlingRights = {} THEN <<"-">>
        ELSE CastlingText(b.castlingRights))
    \o <<" ">>
    \o (IF b.epSquare > 0 THEN SquareNames[b.epSquare] ELSE <<"-">>)

Fen(b) == Epd(b) \o <<" ">> \o Itoa(b.halfMoveClock) \o <<" ">> \o Itoa(b.fullMoveNumber)

\* FenCastlingRegex: "-" or a non-empty selection of K, Q, k, q in that order.
FenCastlingMatch(s) ==
    \/ s = <<"-">>
    \/ \E k \in {<<>>, <<"K">>}, q \in {<<>>, <<"Q">>},
          bk \in {<<>>, <<"k">>}, bq \in {<<>>, <<"q">>} :
          s # <<>> /\ s = k \o q \o bk \o bq

\* The validation of one row of the board field.
FenRowOk(row) ==
    LET isDigit(c) == c \in {"1", "2", "3", "4", "5", "6", "7", "8"}
        RECURSIVE sum(_)
        sum(k) == IF k = 0 THEN 0
                  ELSE sum(k - 1) + (IF isDigit(row[k]) THEN DigitVal(row[k]) ELSE 1)
    IN /\ \A i \in 1..Len(row) : isDigit(row[i]) \/ row[i] \in PieceLetters
       /\ \A i \in 1..(Len(row) - 1) : ~(isDigit(row[i]) /\ isDigit(row[i + 1]))
       /\ sum(Len(row)) = 8

\* Everything SetFen checks before it touches the receiver.
FenValid(fen) ==
    LET parts == Fields(fen)
    IN /\ Len(parts) = 6
       /\ LET rows == Split(parts[1], "/")
          IN Len(rows) = 8 /\ \A k \in 1..8 : FenRowOk(rows[k])
       /\ parts[2] \in {<<"w">>, <<"b">>}
       /\ FenCastlingMatch(parts[3])
       /\ \/ parts[4] = <<"-">>
          \/ rankIndex(SquareIndex(parts[4])) = (IF parts[2] = <<"w">> THEN 5 ELSE 2)
       /\ ~Atoi(parts[5]).err /\ Atoi(parts[5]).val >= 0
       /\ ~Atoi(parts[6]).err /\ Atoi(parts[6]).val >= 0

\* The loop that puts the pieces of the board field on the cleared board: each
\* piece letter goes to Squares180[squareIndex], where squareIndex is the sum of
\* the digits and the number of the piece letters before it; any other
\* character is skipped.
PlacePieces(b, board) ==
    LET isDigit(c) == c \in {"1", "2", "3", "4", "5", "6", "7", "8"}
        \* the characters lo..hi of board, in order, met with board cur and
        \* squareIndex k: the squares they advance squareIndex by, the board after
        RECURSIVE place(_, _, _, _)
        place(cur, k, lo, hi) ==
            IF lo > hi THEN [advance |-> 0, b |-> cur]
            ELSE IF lo = hi
            THEN IF isDigit(board[lo])
                 THEN [advance |-> DigitVal(board[lo]), b |-> cur]
                 ELSE IF board[lo] \in PieceLetters
                 THEN [advance |-> 1,
                       b |-> SetPieceAt(cur, Squares180[k + 1],
                                        PieceFromSymbol(board[lo])[1],
                                        PieceFromSymbol(board[lo])[2])]
                 ELSE [advance |-> 0, b |-> cur]
            ELSE LET l == place(cur, k, lo, (lo + hi) \div 2)
                     r == place(l.b, k + l.advance, (lo + hi) \div 2 + 1, hi)
                 IN [advance |-> l.advance + r.advance, b |-> r.b]
    IN place(b, 0, 1, Len(board)).b

\* A castling field that takes the upper-case letters for both colours.
FenCastlingRightsCaseSlip(part) ==
    (IF "K" \in Range(part) THEN CastlingWhiteKingSide ELSE CastlingNone)
        \cup (IF "Q" \in Range(part) THEN CastlingWhiteQueenSide ELSE CastlingNone)
        \cup (IF "K" \in Range(part) THEN CastlingBlackKingSide ELSE CastlingNone)
        \cup (IF "Q" \in Range(part) THEN CastlingBlackQueenSide ELSE CastlingNone)
\* The castling flags SetFen sets from the castling field.
FenCastlingRights(part) ==
    (IF "K" \in Range(part) THEN CastlingWhiteKingSide ELSE CastlingNone)
        \cup (IF "Q" \in Range(part) THEN CastlingWhiteQueenSide ELSE CastlingNone)
        \cup (IF "k" \in Range(part) THEN CastlingBlackKingSide ELSE CastlingNone)
        \cup (IF "q" \in Range(part) THEN CastlingBlackQueenSide ELSE CastlingNone)

\* SetFen from b.Clear() on, for the fields of a text that passed the validation.
FenLoad(b, parts) ==
    LET hm == Atoi(parts[5]).val
        fm == Atoi(parts[6]).val
        placed == PlacePieces(Clear(b), parts[1])
        set == [placed EXCEPT
                  !.turn = IF parts[2] = <<"w">> THEN White ELSE Black,
                  !.castlingRights = FenCastlingRights(parts[3]),
                  !.epSquare = IF parts[4] = <<"-">> THEN 0 ELSE SquareIndex(parts[4]),
                  !.halfMoveClock = hm,
                  !.fullMoveNumber = IF fm > 0 THEN fm ELSE 1]
    IN [set EXCEPT !.transpositions = MapAdd(<<>>, ZobristHash(set), 1)]

\* A SetFen that clears the board before it validates the text.
SetFenClearFirst(b, fen) ==
    IF ~FenValid(fen) THEN [err |-> TRUE, b |-> Clear(b)]
    ELSE [err |-> FALSE, b |-> FenLoad(b, Fields(fen))]
\* SetFen: [err |-> an error was returned, b |-> the receiver afterwards].
SetFen(b, fen) ==
    IF ~FenValid(fen) THEN [err |-> TRUE, b |-> b]
    ELSE [err |-> FALSE, b |-> FenLoad(b, Fields(fen))]

\* Move.Uci: the nil move renders as 0000; PieceSymbols[None] is the empty string.
Uci(move) ==
    IF move = NullMove THEN <<"0", "0", "0", "0">>
    ELSE SquareNames[move.fromSquare] \o SquareNames[move.toSquare]
         \o (IF move.promotion = None THEN <<>> ELSE <<PieceSymbols[move.promotion]>>)

\* The piece type MoveFromUci's loop over PieceSymbols stops at: the first
\* index whose symbol is c, or the zero value None when there is none.
UciPromotion(c) ==
    IF \E t \in 1..6 : PieceSymbols[t] = c
    THEN CHOOSE t \in 1..6 : PieceSymbols[t] = c
    ELSE None

\* MoveFromUci.  A square name found in SquareNames sets the square; a name
\* not found leaves it at the zero value 0 (SquareIndex).
MoveFromUciAsQuiet(uci) ==
    IF uci = <<"0", "0", "0", "0">> THEN NullMove
    ELSE IF Len(uci) \in {4, 5}
    THEN NewMove(SquareIndex(SubSeq(uci, 1, 2)), SquareIndex(SubSeq(uci, 3, 4)), None)
    ELSE NullMove
MoveFromUci(uci) ==
    IF uci = <<"0", "0", "0", "0">> THEN NullMove
    ELSE IF Len(uci) = 4
    THEN NewMove(SquareIndex(SubSeq(uci, 1, 2)), SquareIndex(SubSeq(uci, 3, 4)), None)
    ELSE IF Len(uci) = 5
    THEN NewMove(SquareIndex(SubSeq(uci, 1, 2)), SquareIndex(SubSeq(uci, 3, 4)),
                 UciPromotion(uci[5]))
    ELSE NullMove

\* strings.TrimSpace and strings.TrimRight(s, cutset).
TrimSpace(s) ==
    LET keep == {i \in 1..Len(s) : s[i] \notin Whitespace}
    IN IF keep = {} THEN <<>>
       ELSE SubSeq(s, CHOOSE i \in keep : \A j \in keep : i <= j,
                      CHOOSE i \in keep : \A j \in keep : i >= j)
TrimRight(s, cutset) ==
    LET keep == {i \in 1..Len(s) : s[i] \notin cutset}
    IN IF keep = {} THEN <<>>
       ELSE SubSeq(s, 1, CHOOSE i \in keep : \A j \in keep : i >= j)

\* The opcodes SetEpd's loop stores for an operation part.  The part is one
\* field of the text and holds no blank, so the loop never enters an operand:
\* each ";" stores the characters read since the last one, with the operand None.
EpdOpcodes(operationPart) ==
    Range(Drop(Split(operationPart, ";")))

\* SetEpd: [err |-> an error was returned, panic |-> the call panicked,
\* b |-> the receiver afterwards, operations |-> the opcodes returned].
\* An hmvc or fmvn opcode holds the integer None, and val.(string) panics.
\* The error SetFen returns is dropped.
SetEpd(b, epd) ==
    LET trimmed == Fields(TrimRight(TrimSpace(epd), {";"}))
        operations == IF Len(trimmed) > 4
                      THEN EpdOpcodes(Top(trimmed) \o <<";">>) ELSE {}
        parts == IF Len(trimmed) > 4 THEN Drop(trimmed) ELSE trimmed
    IN IF Len(trimmed) < 4
       THEN [err |-> TRUE, panic |-> FALSE, b |-> b, operations |-> {}]
       ELSE IF <<"h", "m", "v", "c">> \in operations \/ <<"f", "m", "v", "n">> \in operations
       THEN [err |-> FALSE, panic |-> TRUE, b |-> b, operations |-> operations]
       ELSE [err |-> FALSE, panic |-> FALSE, operations |-> operations,
             b |-> SetFen(b, <<" ">> \o Join(parts \o << <<"0">>, <<"1">> >>, <<>>)).b]

\* NewBitboard(fen) for a non-empty fen: SetFen on a zero Bitboard with fresh
\* stacks and an empty transposition table; its error is dropped.
ZeroBitboard ==
    [Cleared EXCEPT !.kingSquares = [c \in 0..1 |-> 0], !.transpositions = <<>>]
NewBitboard(fen) == IF fen = <<>> THEN Fresh ELSE SetFen(ZeroBitboard, fen).b

-----------------------------------------------------------------------------
(* Bitboard instances in memory.  The five stacks and the transposition    *)
(* map of a Bitboard are objects the struct points to; heap is the         *)
(* sequence of the objects allocated so far, an address is an index of it. *)

\* The addresses new(Stack) (five times) and the map literal return next.
ReusedRefs(heap) ==
    <<1, 2, 3, 4, 5, 6>>
FreshRefs(heap) ==
    <<Len(heap) + 1, Len(heap) + 2, Len(heap) + 3, Len(heap) + 4, Len(heap) + 5, Len(heap) + 6>>

\* The objects of a Bitboard value, in the order of the addresses.
Objects(p) ==
    <<p.halfMoveClockStack, p.capturedPieceStack, p.castlingRightStack,
      p.epSquareStack, p.moveStack, p.transpositions>>

\* The struct itself: the fields that are no pointers.
Scalars(p) ==
    [p EXCEPT !.halfMoveClockStack = <<>>, !.capturedPieceStack = <<>>,
              !.castlingRightStack = <<>>, !.epSquareStack = <<>>,
              !.moveStack = <<>>, !.transpositions = <<>>]

\* The Bitboard an instance [val, refs] denotes in a heap.
View(heap, inst) ==
    [inst.val EXCEPT !.halfMoveClockStack = heap[inst.refs[1]],
                     !.capturedPieceStack = heap[inst.refs[2]],
                     !.castlingRightStack = heap[inst.refs[3]],
                     !.epSquareStack = heap[inst.refs[4]],
                     !.moveStack = heap[inst.refs[5]],
                     !.transpositions = heap[inst.refs[6]]]

\* The heap after an operation that pushes on, pops off or writes into the
\* objects at refs: each holds what the operation left in it.
StoreInPlace(heap, refs, p) ==
    [a \in 1..Len(heap) |->
        IF \E k \in 1..6 : refs[k] = a
        THEN Objects(p)[CHOOSE k \in 1..6 : refs[k] = a /\ \A j \in k + 1..6 : refs[j] # a]
        ELSE heap[a]]

\* The heap after an operation that points the struct to new objects at refs
\* (Reset, Clear, and SetFen through Clear): the old objects stay as they are.
StoreFresh(heap, refs, p) ==
    [a \in 1..Len(heap) + 6 |->
        IF \E k \in 1..6 : refs[k] = a
        THEN Objects(p)[CHOOSE k \in 1..6 : refs[k] = a /\ \A j \in k + 1..6 : refs[j] # a]
        ELSE IF a <= Len(heap) THEN heap[a] ELSE <<>>]

\* NewBitboard(fen) in a heap: [heap, inst].
NewInstance(heap, fen) ==
    [heap |-> StoreFresh(heap, FreshRefs(heap), NewBitboard(fen)),
     inst |-> [val |-> Scalars(NewBitboard(fen)), refs |-> FreshRefs(heap)]]

-----------------------------------------------------------------------------
(* Game tree: the children of a GameNode.  A child is [move, id], id being  *)
(* the identity of the *GameNode; an index is the 0-based index of Go.      *)

\* VariationByMove: the index of the first child with the move, -1 if none.
VariationByMove(variations, move) ==
    IF \E k \in 1..Len(variations) : variations[k].move = move
    THEN (CHOOSE k \in 1..Len(variations) :
              /\ variations[k].move = move
              /\ \A j \in 1..k - 1 : variations[j].move # move) - 1
    ELSE -1

\* s[lo:hi] of a slice of length and capacity at least Len(s): it panics
\* unless 0 <= lo <= hi.
SliceInRange(s, lo, hi) == 0 <= lo /\ lo <= hi /\ hi <= Len(s)

\* append(variations[0:i], variations[i+1:len(variations)-1]...):
\* [panic |-> a slice expression is out of range, variations |-> the result].
WithoutIndex(variations, i) ==
    IF ~SliceInRange(variations, 0, i) \/ ~SliceInRange(variations, i + 1, Len(variations) - 1)
    THEN [panic |-> TRUE, variations |-> variations]
    ELSE [panic |-> FALSE,
          variations |-> SubSeq(variations, 1, i) \o SubSeq(variations, i + 2, Len(variations) - 1)]

\* RemoveVariation(move).
RemoveVariation(variations, move) ==
    WithoutIndex(variations, VariationByMove(variations, move))

\* PromoteToMain(move): the child found is put in front of what the first
\* statement left.
PromotedToFront(variation, cut) ==
    IF cut.panic THEN cut
    ELSE [panic |-> FALSE, variations |-> <<variation>> \o cut.variations]
PromoteToMain(variations, move) ==
    IF VariationByMove(variations, move) < 0
    THEN [panic |-> TRUE, variations |-> variations]
    ELSE PromotedToFront(variations[VariationByMove(variations, move) + 1],
                         WithoutIndex(variations, VariationByMove(variations, move)))

\* AddVariation(move, ...): a new node is appended.
AddVariation(variations, move, id) == Append(variations, [move |-> move, id |-> id])

\* AddMainVariation(move, comment).
AddMainVariation(variations, move, id) ==
    PromoteToMain(AddVariation(variations, move, id), move)

-----------------------------------------------------------------------------
(* Game end and draw detection                                             *)

IsCheckmate(b) == IsCheck(b) /\ Len(AllLegal(b)) = 0

\* A stalemate test that does not look for a check.
StalemateWithoutCheckTest(b) ==
    Len(AllLegal(b)) = 0
IsStalemate(b) ==
    ~IsCheck(b) /\ Len(AllLegal(b)) = 0

\* A claim that only looks at the count of the current position.
CanClaimNoLookAhead(b) ==
    MapGet(b.transpositions, ZobristHash(b)) >= 3
\* CanClaimThreefoldRepitition: the current count, else a trial Push of every
\* pseudo-legal move.
CanClaimThreefoldRepitition(b) ==
    \/ MapGet(b.transpositions, ZobristHash(b)) >= 3
    \/ \E move \in Range(AllPseudoLegal(b)) :
          LET pushed == Push(b, move)
          IN ~WasIntoCheck(pushed) /\ MapGet(pushed.transpositions, ZobristHash(pushed)) >= 3

\* IsFivefoldRepitition with `back` plies taken back in each of its four
\* steps (the inner loop of the code runs 4 times): the returned flag, and
\* the receiver after the moves of the switchyard were pushed again.
RECURSIVE FivefoldRestore(_)
RECURSIVE FivefoldGoBack(_, _)
RECURSIVE FivefoldSteps(_, _, _, _)
\* for switchyard.Len() > 0 { b.Push(switchyard.Pop()) }
FivefoldRestore(run) ==
    IF run.switchyard = <<>> THEN run.b
    ELSE FivefoldRestore([b |-> Push(run.b, Top(run.switchyard)),
                          switchyard |-> Drop(run.switchyard)])
\* switchyard.Push(b.Pop()), j times
FivefoldGoBack(run, j) ==
    IF j = 0 THEN run
    ELSE FivefoldGoBack([b |-> Pop(run.b),
                         switchyard |-> Append(run.switchyard, Peek(run.b))], j - 1)
\* The outer loop from its i-th round on: the flag returned and the board and
\* switchyard at the point where the loop is left.
FivefoldChecked(went, i, back, zobristHash) ==
    IF ZobristHash(went.b) # zobristHash
    THEN [result |-> FALSE, run |-> went]
    ELSE FivefoldSteps(went, i + 1, back, zobristHash)
FivefoldSteps(run, i, back, zobristHash) ==
    IF i = 4 THEN [result |-> TRUE, run |-> run]
    ELSE FivefoldChecked(FivefoldGoBack(run, back), i, back, zobristHash)
\* Both ways out of the loop push the moves of the switchyard again.
FivefoldLeft(stop) == [result |-> stop.result, b |-> FivefoldRestore(stop.run)]
FivefoldReplay(b, back) ==
    IF Len(b.moveStack) < 16 \/ MapGet(b.transpositions, ZobristHash(b)) < 5
    THEN [result |-> FALSE, b |-> b]
    ELSE FivefoldLeft(FivefoldSteps([b |-> b, switchyard |-> <<>>], 0, back, ZobristHash(b)))

IsFivefoldRepititionRun(b) == FivefoldReplay(b, 4)

\* An IsFivefoldRepitition whose steps go back two plies each.
IsFivefoldTwoPlySteps(b) == FivefoldReplay(b, 2).result
IsFivefoldRepitition(b) ==
    IsFivefoldRepititionRun(b).result

\* IsInsufficientMaterial with the piece-count shortcut at four pieces.
InsufficientUpToFourPieces(b) ==
    /\ b.pawns = {} /\ b.rooks = {} /\ b.queens = {}
    /\ \/ popCount(b.occupied) <= 4
       \/ b.knights = {} /\ (b.bishops \cap BBDarkSquares = {}
                             \/ b.bishops \cap BBLightSquares = {})
IsInsufficientMaterial(b) ==
    IF b.pawns # {} \/ b.rooks # {} \/ b.queens # {} THEN FALSE
    ELSE IF popCount(b.occupied) <= 3 THEN TRUE
    ELSE IF b.knights # {} THEN FALSE
    ELSE IF b.bishops \cap BBDarkSquares = {} THEN TRUE
    ELSE IF b.bishops \cap BBLightSquares = {} THEN TRUE
    ELSE FALSE

IsSeventyfiveMoves(b) ==
    b.halfMoveClock >= 150 /\ Len(AllLegal(b)) > 0

\* A fifty-move claim that looks at the clock only.
CanClaimFiftyByClock(b) ==
    b.halfMoveClock >= 100
CanClaimFiftyMoves(b) ==
    b.halfMoveClock >= 100 /\ Len(AllLegal(b)) > 0

\* IsGameOver: the returned flag, and the receiver after the calls it made.
IsGameOverRun(b) ==
    IF b.halfMoveClock >= 150 THEN [result |-> TRUE, b |-> b]
    ELSE IF IsInsufficientMaterial(b) THEN [result |-> TRUE, b |-> b]
    ELSE LET generated == GenerateLegalMovesRun(b, TRUE, TRUE, TRUE, TRUE, TRUE, TRUE, TRUE)
         IN IF Len(generated.moves) = 0 THEN [result |-> TRUE, b |-> generated.b]
            ELSE IsFivefoldRepititionRun(generated.b)

\* An IsGameOver without the fivefold repetition.
IsGameOverNoRepetition(b) ==
    \/ b.halfMoveClock >= 150
    \/ IsInsufficientMaterial(b)
    \/ Len(AllLegal(b)) = 0
IsGameOver(b) ==
    IsGameOverRun(b).result

-----------------------------------------------------------------------------
(* Perft: the leaves of the tree of legal moves                            *)

\* perft(b, depth): every move of GenerateLegalMoves is pushed, the leaves
\* below it are counted and the move is popped.  PerftRun is the count and the
\* receiver after all the calls made on it.
RECURSIVE PerftRun(_, _)
RECURSIVE PerftLoop(_, _, _, _)
\* nodes += perft(b, depth - 1); b.Pop()
PerftPopped(counted) == [nodes |-> counted.nodes, b |-> Pop(counted.b)]
\* The loop over moves[lo..hi] of the generated moves, in order, on the
\* receiver generated.b.
PerftLoop(generated, depth, lo, hi) ==
    IF lo > hi THEN [nodes |-> 0, b |-> generated.b]
    ELSE IF lo = hi
    THEN PerftPopped(PerftRun(Push(generated.b, generated.moves[lo]), depth - 1))
    ELSE LET mid == (lo + hi) \div 2
             l == PerftLoop(generated, depth, lo, mid)
             r == PerftLoop([generated EXCEPT !.b = l.b], depth, mid + 1, hi)
         IN [nodes |-> l.nodes + r.nodes, b |-> r.b]
PerftMoves(generated, depth) ==
    PerftLoop(generated, depth, 1, Len(generated.moves))
PerftRun(b, depth) ==
    IF depth = 0 THEN [nodes |-> 1, b |-> b]
    ELSE PerftMoves(GenerateLegalMovesRun(b, TRUE, TRUE, TRUE, TRUE, TRUE, TRUE, TRUE), depth)
Perft(b, depth) == PerftRun(b, depth).nodes

-----------------------------------------------------------------------------
(* SAN                                                                     *)

\* The piece letter and the candidates for disambiguation of a piece move.
SanOthers(b, move, piece) ==
    LET all == ((b[KindField(piece)] \cap AttacksFrom(b, piece, move.toSquare))
                    \ BBSquares[move.fromSquare]) \cap b.occupiedCo[b.turn]
    IN {s \in all : ~IsIntoCheck(b, NewMove(s, move.toSquare, None))}

\* A disambiguation that names the file only when a candidate shares the rank
\* (the else branch that sets column is left out).
SanOriginNoElse(move, others) ==
    LET column == others \cap BBRanks[rankIndex(move.fromSquare)] # {}
        row == others \cap BBFiles[fileIndex(move.fromSquare)] # {}
    IN (IF others # {} /\ column
        THEN <<FileNames[fileIndex(move.fromSquare) + 1]>> ELSE <<>>)
       \o (IF others # {} /\ row
           THEN Itoa(rankIndex(move.fromSquare) + 1) ELSE <<>>)
\* The origin file and rank San writes after the piece letter, given the other
\* pieces of the kind that can legally move to the destination.
SanOrigin(move, others) ==
    LET column == \/ others \cap BBRanks[rankIndex(move.fromSquare)] # {}
                  \/ others \cap BBFiles[fileIndex(move.fromSquare)] = {}
        row == others \cap BBFiles[fileIndex(move.fromSquare)] # {}
    IN (IF others # {} /\ column
        THEN <<FileNames[fileIndex(move.fromSquare) + 1]>> ELSE <<>>)
       \o (IF others # {} /\ row
           THEN Itoa(rankIndex(move.fromSquare) + 1) ELSE <<>>)

\* The mark of a check or a mate in the position the move leads to.
SanSuffix(pushed) ==
    IF IsCheck(pushed)
    THEN (IF IsCheckmate(pushed) THEN <<"#">> ELSE <<"+">>)
    ELSE <<>>
\* The piece letter and the origin of a piece move; nothing for a pawn.
SanHead(b, move, piece) ==
    IF piece = Pawn THEN <<>>
    ELSE <<UpperSymbols[piece]>> \o SanOrigin(move, SanOthers(b, move, piece))

\* The text of a move of the piece, given its head and its suffix.
SanMove(b, move, piece, head, suffix) ==
    LET toOccupied == BBSquares[move.toSquare] \cap b.occupied # {}
        enPassant == piece = Pawn /\ ~toOccupied
                        /\ AbsDiff(move.fromSquare, move.toSquare) \in {7, 9}
        capture == IF toOccupied \/ enPassant
                   THEN (IF piece = Pawn THEN <<FileNames[fileIndex(move.fromSquare) + 1]>>
                                         ELSE <<>>) \o <<"x">>
                   ELSE <<>>
        promo == IF move.promotion > None THEN <<"=", UpperSymbols[move.promotion]>> ELSE <<>>
    IN IF piece = King /\ move.fromSquare \in {E1, E8} /\ move.toSquare = move.fromSquare + 2
       THEN <<"O", "-", "O">>
       ELSE IF piece = King /\ move.fromSquare \in {E1, E8} /\ move.toSquare = move.fromSquare - 2
       THEN <<"O", "-", "O", "-", "O">>
       ELSE head \o capture \o SquareNames[move.toSquare] \o promo \o suffix

San(b, move) ==
    IF move = NullMove THEN <<"-", "-">>
    ELSE SanMove(b, move, PieceTypeAt(b, move.fromSquare),
                 SanHead(b, move, PieceTypeAt(b, move.fromSquare)),
                 SanSuffix(Push(b, move)))

\* SanRegex: ^([NBKRQ])?([a-h])?([1-8])?x?([a-h][1-8])(=[nbrqNBRQ])?(\+|#)?$
\* [ok |-> the token matches, piece, file, rank, dest, promo |-> the groups 1..5
\* (an empty sequence for a group that did not take part)].
SanMatch(san) ==
    LET noSuffix == IF san # <<>> /\ Top(san) \in {"+", "#"} THEN Drop(san) ELSE san
        n1 == Len(noSuffix)
        hasPromo == n1 >= 2 /\ noSuffix[n1 - 1] = "="
                       /\ noSuffix[n1] \in {"n", "b", "r", "q", "N", "B", "R", "Q"}
        core == IF hasPromo THEN SubSeq(noSuffix, 1, n1 - 2) ELSE noSuffix
        n == Len(core)
        pre0 == SubSeq(core, 1, n - 2)
        piece == IF pre0 # <<>> /\ pre0[1] \in {"N", "B", "K", "R", "Q"} THEN <<pre0[1]>> ELSE <<>>
        pre1 == SubSeq(pre0, Len(piece) + 1, Len(pre0))
        file == IF pre1 # <<>> /\ pre1[1] \in Range(FileNames) THEN <<pre1[1]>> ELSE <<>>
        pre2 == SubSeq(pre1, Len(file) + 1, Len(pre1))
        rank == IF pre2 # <<>> /\ pre2[1] \in {"1", "2", "3", "4", "5", "6", "7", "8"}
                THEN <<pre2[1]>> ELSE <<>>
        pre3 == SubSeq(pre2, Len(rank) + 1, Len(pre2))
    IN IF n >= 2 /\ core[n - 1] \in Range(FileNames)
             /\ core[n] \in {"1", "2", "3", "4", "5", "6", "7", "8"}
             /\ pre3 \in {<<>>, <<"x">>}
       THEN [ok |-> TRUE, piece |-> piece, file |-> file, rank |-> rank,
             dest |-> SubSeq(core, n - 1, n),
             promo |-> IF hasPromo THEN SubSeq(noSuffix, n1 - 1, n1) ELSE <<>>]
       ELSE [ok |-> FALSE, piece |-> <<>>, file |-> <<>>, rank |-> <<>>, dest |-> <<>>,
             promo |-> <<>>]

LowerOf(c) == IF c \in Range(UpperSymbols) THEN PieceSymbols[CHOOSE t \in 1..6 : UpperSymbols[t] = c] ELSE c

\* ParseSan: [err |-> an error was returned, move |-> the returned move].
ParseSan(b, san) ==
    LET fail == [err |-> TRUE, move |-> NullMove]
        kingHome == IF b.turn = White THEN E1 ELSE E8
        castle(toSquare) ==
            LET move == NewMove(kingHome, toSquare, None)
            IN IF b.kings \cap b.occupiedCo[b.turn] \cap BBSquares[move.fromSquare] # {}
                     /\ IsLegal(b, move)
               THEN [err |-> FALSE, move |-> move] ELSE fail
        m == SanMatch(san)
        toSquare == SquareIndex(m.dest)
        promotion == IF m.promo # <<>>
                     THEN CHOOSE t \in 1..6 : PieceSymbols[t] = LowerOf(m.promo[2])
                     ELSE None
        moves == IF m.piece = <<"N">>
                 THEN GeneratePseudoLegalMoves(b, FALSE, FALSE, TRUE, FALSE, FALSE, FALSE, FALSE)
                 ELSE IF m.piece = <<"B">>
                 THEN GeneratePseudoLegalMoves(b, FALSE, FALSE, FALSE, TRUE, FALSE, FALSE, FALSE)
                 ELSE IF m.piece = <<"K">>
                 THEN GeneratePseudoLegalMoves(b, FALSE, FALSE, FALSE, FALSE, FALSE, FALSE, TRUE)
                 ELSE IF m.piece = <<"R">>
                 THEN GeneratePseudoLegalMoves(b, FALSE, FALSE, FALSE, FALSE, TRUE, FALSE, FALSE)
                 ELSE IF m.piece = <<"Q">>
                 THEN GeneratePseudoLegalMoves(b, FALSE, FALSE, FALSE, FALSE, FALSE, TRUE, FALSE)
                 ELSE GeneratePseudoLegalMoves(b, FALSE, TRUE, FALSE, FALSE, FALSE, FALSE, FALSE)
        fromMask == (IF m.file # <<>>
                     THEN BBFiles[(CHOOSE i \in 1..8 : FileNames[i] = m.file[1]) - 1] ELSE BBAll)
                    \cap (IF m.rank # <<>> THEN BBRanks[DigitVal(m.rank[1]) - 1] ELSE BBAll)
        matched == Concat([i \in 1..Len(moves) |->
                       IF /\ moves[i].toSquare = toSquare
                          /\ moves[i].promotion = promotion
                          /\ BBSquares[moves[i].fromSquare] \cap fromMask # {}
                          /\ ~IsIntoCheck(b, moves[i])
                       THEN <<moves[i]>> ELSE <<>>])
    IN IF san = <<"-", "-">> THEN [err |-> FALSE, move |-> NullMove]
       ELSE IF san \in {<<"O", "-", "O">>, <<"O", "-", "O", "+">>, <<"O", "-", "O", "#">>}
       THEN castle(kingHome + 2)
       ELSE IF san \in {<<"O", "-", "O", "-", "O">>, <<"O", "-", "O", "-", "O", "+">>,
                        <<"O", "-", "O", "-", "O", "#">>}
       THEN castle(kingHome - 2)
       ELSE IF ~m.ok THEN fail
       ELSE IF Len(matched) # 1 THEN fail
       ELSE [err |-> FALSE, move |-> matched[1]]

\* The error texts of ParseSan, by their first word; "" for a nil error.
SanErrors == {"", "invalid", "illegal", "ambiguous"}

\* The result of ParseSan and the receiver after its trial moves.
SanResult(kind, move, b) == [kind |-> kind, move |-> move, b |-> b]

\* ParseSan, the loop over the generated moves from index i on: matched is the
\* move matched so far (the nil move for none), and b the receiver, on which
\* IsIntoCheck pushes and pops each move that passes the three filters.
RECURSIVE ParseSanLoop(_, _, _, _, _, _, _)
\* A loop that keeps the last matching move and never reports ambiguity.
ParseSanTriedKeepingLast(trial, moves, i, toSquare, promotion, fromMask, matched) ==
    IF trial.isCheck
    THEN ParseSanLoop(trial.b, moves, i + 1, toSquare, promotion, fromMask, matched)
    ELSE ParseSanLoop(trial.b, moves, i + 1, toSquare, promotion, fromMask, moves[i])
ParseSanTried(trial, moves, i, toSquare, promotion, fromMask, matched) ==
    IF trial.isCheck
    THEN ParseSanLoop(trial.b, moves, i + 1, toSquare, promotion, fromMask, matched)
    ELSE IF matched # NullMove THEN SanResult("ambiguous", NullMove, trial.b)
    ELSE ParseSanLoop(trial.b, moves, i + 1, toSquare, promotion, fromMask, moves[i])
ParseSanLoop(b, moves, i, toSquare, promotion, fromMask, matched) ==
    IF i > Len(moves)
    THEN (IF matched = NullMove THEN SanResult("illegal", NullMove, b)
          ELSE SanResult("", matched, b))
    ELSE IF \/ moves[i].toSquare # toSquare
            \/ moves[i].promotion # promotion
            \/ BBSquares[moves[i].fromSquare] \cap fromMask = {}
    THEN ParseSanLoop(b, moves, i + 1, toSquare, promotion, fromMask, matched)
    ELSE ParseSanTried(IsIntoCheckRun(b, moves[i]), moves, i, toSquare, promotion,
                       fromMask, matched)

\* ParseSan, the castling branch: the king stands on its home square and
\* IsLegal accepts the move (IsLegal is not called when the king is not there).
ParseSanCastled(move, legal) ==
    IF legal.result THEN SanResult("", move, legal.b)
    ELSE SanResult("illegal", NullMove, legal.b)
ParseSanCastle(b, move) ==
    IF b.kings \cap b.occupiedCo[b.turn] \cap BBSquares[move.fromSquare] = {}
    THEN SanResult("illegal", NullMove, b)
    ELSE The({ParseSanCastled(move, legal) : legal \in {IsLegalCall(b, move)}})

\* ParseSan of a token that is no null move and no castling literal, given
\* the result m of SanRegex.
ParseSanMatched(b, m) ==
    IF ~m.ok THEN SanResult("invalid", NullMove, b)
    ELSE ParseSanLoop(b,
        GeneratePseudoLegalMoves(b, FALSE, m.piece = <<>>, m.piece = <<"N">>,
            m.piece = <<"B">>, m.piece = <<"R">>, m.piece = <<"Q">>, m.piece = <<"K">>),
        1,
        SquareIndex(m.dest),
        IF m.promo # <<>> THEN CHOOSE t \in 1..6 : PieceSymbols[t] = LowerOf(m.promo[2])
        ELSE None,
        (IF m.file # <<>>
         THEN BBFiles[(CHOOSE i \in 1..8 : FileNames[i] = m.file[1]) - 1] ELSE BBAll)
            \cap (IF m.rank # <<>> THEN BBRanks[DigitVal(m.rank[1]) - 1] ELSE BBAll),
        NullMove)

\* The castling literals of ParseSan.
SanShort == {<<"O", "-", "O">>, <<"O", "-", "O", "+">>, <<"O", "-", "O", "#">>}
SanLong == {<<"O", "-", "O", "-", "O">>, <<"O", "-", "O", "-", "O", "+">>,
            <<"O", "-", "O", "-", "O", "#">>}

\* ParseSan(san) on the receiver b: the error, the move and the receiver after.
ParseSanRun(b, san) ==
    IF san = <<"-", "-">> THEN SanResult("", NullMove, b)
    ELSE IF san \in SanShort \cup SanLong
    THEN ParseSanCastle(b, NewMove(IF b.turn = White THEN E1 ELSE E8,
                                   IF san \in SanShort
                                   THEN (IF b.turn = White THEN G1 ELSE G8)
                                   ELSE (IF b.turn = White THEN C1 ELSE C8), None))
    ELSE The({ParseSanMatched(b, m) : m \in {SanMatch(san)}})

\* PushSan(san): the move is pushed when ParseSan returned no error.
PushSanParsed(parsed) ==
    IF parsed.kind # "" THEN parsed
    ELSE SanResult("", parsed.move, Push(parsed.b, parsed.move))
PushSanRun(b, san) == The({PushSanParsed(parsed) : parsed \in {ParseSanRun(b, san)}})

-----------------------------------------------------------------------------
(* San and Epd as calls on the receiver: San tries the other pieces of the  *)
(* kind with IsIntoCheck and looks ahead with Push, IsCheckmate and Pop.    *)

\* San, the loop that removes the illegal candidates: squares are the
\* candidates in the order of the bitScan loop, others the ones kept so far.
RECURSIVE SanTrials(_, _, _, _, _)
SanTrial(trial, squares, i, toSquare, others) ==
    SanTrials(trial.b, squares, i + 1, toSquare,
              IF trial.isCheck THEN others \ BBSquares[squares[i]] ELSE others)
SanTrials(b, squares, i, toSquare, others) ==
    IF i > Len(squares) THEN [others |-> others, b |-> b]
    ELSE SanTrial(IsIntoCheckRun(b, NewMove(squares[i], toSquare, None)),
                  squares, i, toSquare, others)

\* The candidates for disambiguation before the illegal ones are removed.
SanAllOthers(b, move, piece) ==
    ((b[KindField(piece)] \cap AttacksFrom(b, piece, move.toSquare))
        \ BBSquares[move.fromSquare]) \cap b.occupiedCo[b.turn]
SanTrialsOf(b, move, others) == SanTrials(b, ScanSeq(others), 1, move.toSquare, others)
SanTried(b, move, piece) ==
    IF piece = Pawn THEN [others |-> {}, b |-> b]
    ELSE SanTrialsOf(b, move, SanAllOthers(b, move, piece))

\* San, the look ahead on the receiver after Push(move): the suffix, and the
\* receiver after IsCheckmate and Pop.
SanMated(generated) ==
    [suffix |-> IF Len(generated.moves) = 0 THEN <<"#">> ELSE <<"+">>, b |-> Pop(generated.b)]
SanLookAhead(pushed) ==
    IF IsCheck(pushed)
    THEN The({SanMated(generated) :
                 generated \in {GenerateLegalMovesRun(pushed, TRUE, TRUE, TRUE, TRUE, TRUE,
                                                      TRUE, TRUE)}})
    ELSE [suffix |-> <<>>, b |-> Pop(pushed)]

SanWritten(move, piece, tried, ahead) ==
    [text |-> SanMove(tried.b, move, piece,
                      IF piece = Pawn THEN <<>>
                      ELSE <<UpperSymbols[piece]>> \o SanOrigin(move, tried.others),
                      ahead.suffix),
     b |-> ahead.b]
SanAhead(move, piece, tried) ==
    The({SanWritten(move, piece, tried, ahead) : ahead \in {SanLookAhead(Push(tried.b, move))}})

\* San(move): [text |-> the returned string, b |-> the receiver afterwards].
SanRun(b, move) ==
    IF move = NullMove THEN [text |-> <<"-", "-">>, b |-> b]
    ELSE IF /\ PieceTypeAt(b, move.fromSquare) = King
            /\ \/ move.fromSquare = E1 /\ move.toSquare \in {G1, C1}
               \/ move.fromSquare = E8 /\ move.toSquare \in {G8, C8}
    THEN [text |-> IF move.toSquare \in {G1, G8} THEN <<"O", "-", "O">>
                   ELSE <<"O", "-", "O", "-", "O">>, b |-> b]
    ELSE The({SanAhead(move, PieceTypeAt(b, move.fromSquare), tried) :
                 tried \in {SanTried(b, move, PieceTypeAt(b, move.fromSquare))}})

\* CanClaimThreefoldRepitition on the receiver: the loop over the pseudo-legal
\* moves from index i on, each pushed and popped.
RECURSIVE ClaimTrials(_, _, _)
ClaimTried(pushed, moves, i) ==
    IF ~WasIntoCheck(pushed) /\ MapGet(pushed.transpositions, ZobristHash(pushed)) >= 3
    THEN [result |-> TRUE, b |-> Pop(pushed)]
    ELSE ClaimTrials(Pop(pushed), moves, i + 1)
ClaimTrials(b, moves, i) ==
    IF i > Len(moves) THEN [result |-> FALSE, b |-> b]
    ELSE The({ClaimTried(pushed, moves, i) : pushed \in {Push(b, moves[i])}})
\* CanClaimThreefoldRepitition(): the returned flag and the receiver afterwards.
CanClaimThreefoldRepititionRun(b) ==
    IF MapGet(b.transpositions, ZobristHash(b)) >= 3 THEN [result |-> TRUE, b |-> b]
    ELSE ClaimTrials(b, AllPseudoLegal(b), 1)

\* An operand of an EPD operation is [type, value]: a *Move, an int, a string
\* or nil.
MoveOperand(move) == [type |-> "move", value |-> move]
IntOperand(n) == [type |-> "int", value |-> n]
StringOperand(text) == [type |-> "string", value |-> text]
NilOperand == [type |-> "nil", value |-> 0]

\* Epd, the escaped text of a string operand: "\r" removed, "\n" to a blank,
\* "\" doubled, ";" to "\s".
EpdEscaped(text) ==
    Concat([i \in 1..Len(text) |->
               IF text[i] = "\r" THEN <<>>
               ELSE IF text[i] = "\n" THEN <<" ">>
               ELSE IF text[i] = "\\" THEN <<"\\", "\\">>
               ELSE IF text[i] = ";" THEN <<"\\", "s">>
               ELSE <<text[i]>>])

\* Epd, the text appended for one opcode and its operand, and the receiver
\* after San for a move.
EpdOperation(b, opcode, operand) ==
    IF operand.type = "move"
    THEN The({[text |-> <<" ">> \o opcode \o <<" ">> \o san.text \o <<";">>, b |-> san.b] :
                 san \in {SanRun(b, operand.value)}})
    ELSE [text |-> <<" ">> \o opcode
                     \o (IF operand.type = "int" THEN <<" ">> \o Itoa(operand.value)
                         ELSE IF operand.type = "string"
                         THEN <<" ", "\"">> \o EpdEscaped(operand.value) \o <<" ", "\"">>
                         ELSE <<>>)
                     \o <<";">>,
          b |-> b]

\* Epd, the range loop over the map of operations; order is the order in
\* which this range visits the keys.
RECURSIVE EpdOperations(_, _, _, _, _)
EpdOperated(done, operations, order, i, text) ==
    EpdOperations(done.b, operations, order, i + 1, text \o done.text)
EpdOperations(b, operations, order, i, text) ==
    IF i > Len(order) THEN [text |-> text, b |-> b]
    ELSE EpdOperated(EpdOperation(b, order[i], operations[order[i]]), operations, order, i,
                     text)

\* Epd(operations): the returned string, and the receiver afterwards.
EpdRun(b, operations, order) == EpdOperations(b, operations, order, 1, Epd(b))

\* The orders in which a range over a map with the given keys may visit them:
\* the Go specification leaves the order open and the runtime starts each
\* range at a random key.
MapOrders(keys) ==
    {order \in [1..Cardinality(keys) -> keys] :
        \A i, j \in 1..Cardinality(keys) : i # j => order[i] # order[j]}

-----------------------------------------------------------------------------
(* PGN exporters.  A StringExporter is [lines, columns, currentLine]; a     *)
(* FileExporter is [string, handle]: the embedded *StringExporter and the   *)
(* text written to the file so far.                                          *)

NewStringExporter(columns) ==
    [lines |-> <<>>, columns |-> columns, currentLine |-> <<>>]

StringFlushCurrentLine(s) ==
    [s EXCEPT !.lines = IF s.currentLine # <<>>
                        THEN Append(@, TrimRight(s.currentLine, Whitespace)) ELSE @,
              !.currentLine = <<>>]

StringWriteToken(s, token) ==
    IF s.columns > 0 /\ s.columns - Len(s.currentLine) < Len(token)
    THEN [StringFlushCurrentLine(s) EXCEPT !.currentLine = token]
    ELSE [s EXCEPT !.currentLine = @ \o token]

StringWriteLine(s, line) ==
    [StringFlushCurrentLine(s) EXCEPT !.lines = Append(@, TrimRight(line, Whitespace))]

NewFileExporter(columns) ==
    [string |-> NewStringExporter(columns), handle |-> <<>>]

\* FileExporter.FlushCurrentLine and FileExporter.WriteLine: currentLine is
\* the promoted field of the embedded StringExporter.
FileFlushCurrentLine(f) ==
    [f EXCEPT !.handle = IF f.string.currentLine # <<>>
                         THEN @ \o TrimRight(f.string.currentLine, Whitespace) \o <<"\n">>
                         ELSE @,
              !.string.currentLine = <<>>]
FileWriteLine(f, line) ==
    [FileFlushCurrentLine(f) EXCEPT !.handle = @ \o TrimRight(line, Whitespace) \o <<"\n">>]

\* strings.Replace(comment, "}", "", -1).
WithoutBraces(comment) ==
    Concat([i \in 1..Len(comment) |-> IF comment[i] = "}" THEN <<>> ELSE <<comment[i]>>])

\* sort.Ints.
RECURSIVE SortInts(_)
SortInts(nags) ==
    IF nags = <<>> THEN <<>>
    ELSE LET least == CHOOSE i \in 1..Len(nags) : \A j \in 1..Len(nags) : nags[i] <= nags[j]
         IN <<nags[least]>> \o SortInts(SubSeq(nags, 1, least - 1)
                                          \o SubSeq(nags, least + 1, Len(nags)))

\* The methods of the Exporter interface, all declared on *StringExporter.
StartGame(s) == s
StartHeaders(s) == s
EndGame(s) == StringWriteLine(s, <<>>)
PutHeader(s, tagname, tagvalue) ==
    StringWriteLine(s, <<"[">> \o tagname \o <<" ", "\"">> \o tagvalue \o <<"\"", "]">>)
EndHeaders(s) == StringWriteLine(s, <<>>)
StartVariation(s) == StringWriteToken(s, <<"(", " ">>)
EndVariation(s) == StringWriteToken(s, <<")", " ">>)
PutComment(s, comment) ==
    StringWriteToken(s, <<"{", " ">> \o TrimSpace(WithoutBraces(comment)) \o <<" ", "}", " ">>)
PutStartingComment(s, comment) == PutComment(s, comment)
PutNag(s, nag) == StringWriteToken(s, <<"$">> \o Itoa(nag) \o <<" ">>)
RECURSIVE PutSortedNags(_, _)
PutSortedNags(s, nags) ==
    IF nags = <<>> THEN s ELSE PutSortedNags(PutNag(s, Head(nags)), Tail(nags))
PutNags(s, nags) == PutSortedNags(s, SortInts(nags))
PutFullMoveNumber(s, turn, fullMoveNumber, variationStart) ==
    IF turn = White THEN StringWriteToken(s, Itoa(fullMoveNumber) \o <<".", " ">>)
    ELSE IF variationStart
    THEN StringWriteToken(s, Itoa(fullMoveNumber) \o <<".", ".", ".", " ">>)
    ELSE s
PutMove(s, board, move) == StringWriteToken(s, San(board, move) \o <<" ">>)
PutResult(s, result) == StringWriteToken(s, result \o <<" ">>)

\* A call through the Exporter interface on a *StringExporter.
StringExporterCall(s, call) ==
    CASE call.name = "StartGame" -> StartGame(s)
      [] call.name = "StartHeaders" -> StartHeaders(s)
      [] call.name = "PutHeader" -> PutHeader(s, call.tagname, call.tagvalue)
      [] call.name = "EndHeaders" -> EndHeaders(s)
      [] call.name = "PutStartingComment" -> PutStartingComment(s, call.comment)
      [] call.name = "PutComment" -> PutComment(s, call.comment)
      [] call.name = "PutNags" -> PutNags(s, call.nags)
      [] call.name = "PutFullMoveNumber" ->
             PutFullMoveNumber(s, call.turn, call.fullMoveNumber, call.afterVariation)
      [] call.name = "PutMove" -> PutMove(s, call.board, call.move)
      [] call.name = "StartVariation" -> StartVariation(s)
      [] call.name = "EndVariation" -> EndVariation(s)
      [] call.name = "PutResult" -> PutResult(s, call.result)
      [] call.name = "EndGame" -> EndGame(s)

RECURSIVE StringExporterCalls(_, _)
StringExporterCalls(s, calls) ==
    IF calls = <<>> THEN s
    ELSE StringExporterCalls(StringExporterCall(s, Head(calls)), Tail(calls))

\* Calls through the Exporter interface on a *FileExporter.  FileExporter
\* declares FlushCurrentLine and WriteLine only; every method of the
\* interface is promoted from the embedded *StringExporter and runs with
\* that receiver, so the WriteLine and FlushCurrentLine it calls are the
\* StringExporter's: embedded is the embedded exporter after the calls.
FileExporterCalls(f, embedded) == [f EXCEPT !.string = embedded]

\* The names of the header tags.
TagEvent == <<"E", "v", "e", "n", "t">>
TagSite == <<"S", "i", "t", "e">>
TagDate == <<"D", "a", "t", "e">>
TagRound == <<"R", "o", "u", "n", "d">>
TagWhite == <<"W", "h", "i", "t", "e">>
TagBlack == <<"B", "l", "a", "c", "k">>
TagResult == <<"R", "e", "s", "u", "l", "t">>
TagSetUp == <<"S", "e", "t", "U", "p">>
TagFEN == <<"F", "E", "N">>

\* A missing *Bitboard argument.
NilBoard == [nil |-> TRUE]

\* A game is [nodes, Headers, order]: nodes[id + 1] is the GameNode with the
\* identity id, [parent, move, nags, startingComment, comment, variations],
\* the root has the identity 0 and the parent -1 (nil); Headers is the map
\* of the root; order is the sequence of its keys as the range loop of this
\* call yields them.
HeaderOr(Headers, key, default) ==
    IF key \in DOMAIN Headers THEN Headers[key] ELSE default

\* GameNode.Board(): the position of the node, a copy made by way of Fen().
\* The board cached in the node is the one computed here: the moves leading
\* to a node never change.
RECURSIVE NodeBoard(_, _)
NodeBoard(game, id) ==
    IF game.nodes[id + 1].parent < 0
    THEN IF /\ TagFEN \in DOMAIN game.Headers
            /\ HeaderOr(game.Headers, TagSetUp, <<>>) = <<"1">>
         THEN NewBitboard(game.Headers[TagFEN])
         ELSE NewBitboard(<<>>)
    ELSE NewBitboard(Fen(Push(NodeBoard(game, game.nodes[id + 1].parent),
                              game.nodes[id + 1].move)))

\* The result of an Export call: the calls made on the exporter, the board
\* afterwards, whether the call panicked and whether the calls nested until
\* the stack was used up.
Exported(calls, board, panic, overflow) ==
    [calls |-> calls, board |-> board, panic |-> panic, overflow |-> overflow]
ExportAfter(calls, r) == [r EXCEPT !.calls = calls \o @]

\* The calls that write the move leading to the child: the move number, the
\* move and, with comments, the NAGs and the comment.
ExportMove(node, id, comments, board, afterVariation) ==
    <<[name |-> "PutFullMoveNumber", turn |-> board.turn,
       fullMoveNumber |-> board.fullMoveNumber, afterVariation |-> afterVariation],
      [name |-> "PutMove", board |-> board, move |-> node.move]>>
    \o (IF comments THEN <<[name |-> "PutNags", nags |-> node.nags, id |-> id]>> ELSE <<>>)
    \o (IF comments /\ Len(node.comment) > 0
        THEN <<[name |-> "PutComment", comment |-> node.comment]>> ELSE <<>>)

ExportHeaders(game) ==
    <<[name |-> "StartHeaders"]>>
    \o [k \in 1..Len(game.order) |->
          [name |-> "PutHeader", tagname |-> game.order[k],
           tagvalue |-> game.Headers[game.order[k]]]]
    \o <<[name |-> "EndHeaders"]>>

\* What the root does before it exports the moves.
ExportStart(game, id, comments, headers) ==
    <<[name |-> "StartGame"]>>
    \o (IF headers THEN ExportHeaders(game) ELSE <<>>)
    \o (IF comments /\ Len(game.nodes[id + 1].comment) > 0
        THEN <<[name |-> "PutStartingComment", comment |-> game.nodes[id + 1].comment]>>
        ELSE <<>>)

ExportEnd(game) ==
    <<[name |-> "PutResult", result |-> HeaderOr(game.Headers, TagResult, <<>>)],
      [name |-> "EndGame"]>>

\* GameNode.Export(exporter, comments, variations, board, afterVariation,
\* headers) on the node id.  depth is the number of further nested calls on
\* the root the stack has room for.
RECURSIVE Export(_, _, _, _, _, _, _, _)
RECURSIVE ExportSidelines(_, _, _, _, _, _)

\* board.Push(move), the child's Export, board.Pop().
ExportPopped(r) ==
    IF r.panic \/ r.overflow THEN r ELSE [r EXCEPT !.board = Pop(@)]
ExportChild(game, child, comments, variations, board, afterVariation, depth) ==
    ExportPopped(Export(game, child, comments, variations,
                        Push(board, game.nodes[child + 1].move), afterVariation, FALSE,
                        depth))

\* The calls that open the variation of the child.
ExportSidelineHead(variation, child, comments, board) ==
    <<[name |-> "StartVariation"]>>
    \o (IF comments /\ Len(variation.startingComment) > 0
        THEN <<[name |-> "PutStartingComment", comment |-> variation.startingComment]>>
        ELSE <<>>)
    \o ExportMove(variation, child, comments, board, TRUE)

\* The rest of the loop once the moves below the k-th child are exported.
ExportSidelinesAfter(game, id, k, comments, depth, head, sub) ==
    IF sub.panic \/ sub.overflow THEN ExportAfter(head, sub)
    ELSE ExportAfter(head \o sub.calls \o <<[name |-> "EndVariation"]>>,
                     ExportSidelines(game, id, k + 1, comments, sub.board, depth))

\* The loop over g.variations[1:], from the k-th child on.
ExportSidelinesFrom(game, id, k, comments, depth, board, child) ==
    ExportSidelinesAfter(game, id, k, comments, depth,
                         ExportSidelineHead(game.nodes[child + 1], child, comments, board),
                         ExportChild(game, child, comments, TRUE, board, FALSE, depth))
ExportSidelines(game, id, k, comments, board, depth) ==
    IF k > Len(game.nodes[id + 1].variations)
    THEN Exported(<<>>, board, FALSE, FALSE)
    ELSE ExportSidelinesFrom(game, id, k, comments, depth, board,
                             game.nodes[id + 1].variations[k].id)

\* The mainline is continued last, unless the node has no child or the
\* sidelines did not return.
ExportNodeAfter(game, vs, comments, variations, depth, first, side) ==
    IF side.panic \/ side.overflow \/ Len(vs) = 0
    THEN ExportAfter(first, side)
    ELSE ExportAfter(first \o side.calls,
                     ExportChild(game, vs[1].id, comments, variations, side.board,
                                 variations /\ Len(vs) > 1, depth))

\* The body for a node with a parent: the mainline move, the sidelines, the
\* mainline.  g.variations[1:] panics for a node without children.
ExportNodeOf(game, id, vs, comments, variations, board, afterVariation, depth) ==
    ExportNodeAfter(game, vs, comments, variations, depth,
                    IF Len(vs) > 0
                    THEN ExportMove(game.nodes[vs[1].id + 1], vs[1].id, comments,
                                    board, afterVariation)
                    ELSE <<>>,
                    IF ~variations THEN Exported(<<>>, board, FALSE, FALSE)
                    ELSE IF ~SliceInRange(vs, 1, Len(vs))
                    THEN Exported(<<>>, board, TRUE, FALSE)
                    ELSE ExportSidelines(game, id, 2, comments, board, depth))
ExportNode(game, id, comments, variations, board, afterVariation, depth) ==
    ExportNodeOf(game, id, game.nodes[id + 1].variations, comments, variations,
                 board, afterVariation, depth)

\* The root calls Export on itself, with no board and without headers, and
\* ends the game when that call returns.
ExportRootAfter(game, start, inner) ==
    IF inner.panic \/ inner.overflow
    THEN ExportAfter(start, inner)
    ELSE Exported(start \o inner.calls \o ExportEnd(game), inner.board, FALSE, FALSE)
ExportRoot(game, id, comments, variations, headers, depth) ==
    ExportRootAfter(game, ExportStart(game, id, comments, headers),
                    IF depth = 0 THEN Exported(<<>>, NilBoard, FALSE, TRUE)
                    ELSE Export(game, id, comments, variations, NilBoard, FALSE, FALSE,
                                depth - 1))

Export(game, id, comments, variations, board, afterVariation, headers, depth) ==
    IF game.nodes[id + 1].parent < 0
    THEN ExportRoot(game, id, comments, variations, headers, depth)
    ELSE ExportNode(game, id, comments, variations,
                    IF board = NilBoard THEN NodeBoard(game, id) ELSE board,
                    afterVariation, depth)

\* NewGame(): the root with the seven headers of an unknown game.
NewGameHeaders ==
    [key \in {TagEvent, TagSite, TagDate, TagRound, TagWhite, TagBlack, TagResult} |->
        IF key = TagDate THEN <<"?", "?", "?", "?", ".", "?", "?", ".", "?", "?">>
        ELSE IF key = TagResult THEN <<"*">> ELSE <<"?">>]

-----------------------------------------------------------------------------
(* The games played on the board.  Each game starts from a position given  *)
(* as FEN text and loaded by NewBitboard; positions are chosen so that      *)
(* castling, en passant, promotion, pins and SAN disambiguation all occur   *)
(* within a few plies.                                                      *)
StartFen ==
    <<"r", "n", "b", "q", "k", "b", "n", "r", "/", "p", "p", "p", "p", "p", "p", "p", "p", "/", "8", "/", "8", "/", "8", "/", "8", "/", "P", "P", "P", "P", "P", "P", "P", "P", "/", "R", "N", "B", "Q", "K", "B", "N", "R", " ", "w", " ", "K", "Q", "k", "q", " ", "-", " ", "0", " ", "1">>

CornerFen ==
    <<"r", "3", "k", "3", "/", "8", "/", "8", "/", "8", "/", "8", "/", "8", "/", "7", "P", "/", "R", "3", "K", "3", " ", "b", " ", "Q", "q", " ", "-", " ", "0", " ", "1">>

CastleFen ==
    <<"4", "k", "3", "/", "8", "/", "8", "/", "8", "/", "8", "/", "8", "/", "5", "r", "2", "/", "4", "K", "2", "R", " ", "w", " ", "K", " ", "-", " ", "0", " ", "1">>

PawnFen ==
    <<"4", "k", "3", "/", "1", "P", "6", "/", "8", "/", "3", "p", "P", "3", "/", "8", "/", "8", "/", "8", "/", "4", "K", "3", " ", "w", " ", "-", " ", "d", "6", " ", "0", " ", "1">>

KnightFen ==
    <<"4", "k", "3", "/", "8", "/", "8", "/", "8", "/", "8", "/", "4", "r", "N", "2", "/", "4", "N", "3", "/", "1", "N", "2", "K", "3", " ", "w", " ", "-", " ", "-", " ", "0", " ", "1">>

QueenFen ==
    <<"4", "k", "3", "/", "8", "/", "8", "/", "8", "/", "8", "/", "Q", "7", "/", "8", "/", "Q", "1", "Q", "1", "K", "3", " ", "w", " ", "-", " ", "-", " ", "3", " ", "4", "0">>

(* Positions at or near the end of a game: the fool's mate and the         *)
(* position before it, a queen ending with a high half-move clock that can *)
(* end in mate, in stalemate or go on, and endings with minor pieces only.  *)
MateFen ==
    <<"r", "n", "b", "1", "k", "b", "n", "r", "/", "p", "p", "p", "p", "1", "p", "p", "p", "/", "8", "/", "4", "p", "3", "/", "6", "P", "q", "/", "5", "P", "2", "/", "P", "P", "P", "P", "P", "2", "P", "/", "R", "N", "B", "Q", "K", "B", "N", "R", " ", "w", " ", "K", "Q", "k", "q", " ", "-", " ", "1", " ", "3">>

FoolFen ==
    <<"r", "n", "b", "q", "k", "b", "n", "r", "/", "p", "p", "p", "p", "1", "p", "p", "p", "/", "8", "/", "4", "p", "3", "/", "6", "P", "1", "/", "5", "P", "2", "/", "P", "P", "P", "P", "P", "2", "P", "/", "R", "N", "B", "Q", "K", "B", "N", "R", " ", "b", " ", "K", "Q", "k", "q", " ", "g", "3", " ", "0", " ", "2">>

SeventyfiveFen ==
    <<"7", "k", "/", "8", "/", "6", "K", "1", "/", "8", "/", "8", "/", "8", "/", "5", "Q", "2", "/", "8", " ", "w", " ", "-", " ", "-", " ", "1", "4", "9", " ", "1", "0", "0">>

FiftyFen ==
    <<"7", "k", "/", "8", "/", "6", "K", "1", "/", "8", "/", "8", "/", "8", "/", "5", "Q", "2", "/", "8", " ", "w", " ", "-", " ", "-", " ", "9", "9", " ", "8", "0">>

BishopFen ==
    <<"8", "/", "8", "/", "8", "/", "4", "k", "3", "/", "8", "/", "4", "B", "3", "/", "4", "K", "3", "/", "8", " ", "w", " ", "-", " ", "-", " ", "0", " ", "1">>

RookFen ==
    <<"8", "/", "8", "/", "8", "/", "4", "k", "3", "/", "8", "/", "4", "R", "3", "/", "4", "K", "3", "/", "8", " ", "w", " ", "-", " ", "-", " ", "0", " ", "1">>

BishopsFen ==
    <<"5", "b", "2", "/", "8", "/", "8", "/", "4", "k", "3", "/", "8", "/", "4", "B", "3", "/", "4", "K", "3", "/", "8", " ", "w", " ", "-", " ", "-", " ", "0", " ", "1">>

OppositeFen ==
    <<"4", "b", "3", "/", "8", "/", "8", "/", "4", "k", "3", "/", "8", "/", "4", "B", "3", "/", "4", "K", "3", "/", "8", " ", "w", " ", "-", " ", "-", " ", "0", " ", "1">>

KnightsFen ==
    <<"8", "/", "8", "/", "8", "/", "4", "k", "3", "/", "8", "/", "4", "N", "3", "/", "4", "K", "1", "N", "1", "/", "8", " ", "w", " ", "-", " ", "-", " ", "0", " ", "1">>

\* Pawns that can push two squares past an enemy pawn, on either side.
EpFen ==
    <<"4", "k", "3", "/", "3", "p", "4", "/", "8", "/", "4", "P", "3", "/", "2", "p", "5", "/", "8", "/", "1", "P", "6", "/", "4", "K", "3", " ", "b", " ", "-", " ", "-", " ", "0", " ", "1">>

\* The first game starts from NewBitboard(""), the last one from the same
\* position loaded as text.
Scenarios == << <<>>, CornerFen, CastleFen, PawnFen, KnightFen, QueenFen, StartFen,
               <<>>, MateFen, FoolFen, SeventyfiveFen, FiftyFen, BishopFen, RookFen,
               BishopsFen, OppositeFen, KnightsFen, EpFen, <<>> >>

\* The games of the play, FEN and SAN specifications.
PlayScenarios == 1..6

(* The moves a game may continue with once the freely explored plies are   *)
(* used up: the caller's move list of each game.                            *)
Script ==
    << {NewMove(G1, 21, None), NewMove(G8, 45, None),
        NewMove(21, G1, None), NewMove(45, G8, None)},
       {NewMove(A8, A1, None), NewMove(E1, 12, None), NewMove(E8, C8, None),
        NullMove},
       {NewMove(H1, G1, None), NewMove(13, 5, None), NullMove},
       {NewMove(49, 57, Queen), NewMove(E8, 52, None), NullMove},
       {NewMove(B1, 18, None), NewMove(20, 19, None)},
       {NewMove(16, 8, None), NewMove(E8, 52, None), NullMove},
       {NewMove(G1, 21, None), NewMove(21, G1, None),
        NewMove(G8, 45, None), NewMove(45, G8, None),
        NewMove(B1, 18, None), NewMove(18, B1, None),
        NewMove(B8, 42, None), NewMove(42, B8, None)},
       {NewMove(G1, 21, None), NewMove(21, G1, None), NewMove(B1, 18, None),
        NewMove(G8, 45, None), NewMove(45, G8, None)},
       {},
       {NewMove(D8, 31, None), NewMove(G8, 45, None)},
       {NewMove(13, 61, None), NewMove(13, 53, None), NewMove(13, 21, None),
        NewMove(H8, G8, None), NewMove(21, 20, None)},
       {NewMove(13, 61, None), NewMove(13, 53, None), NewMove(13, 21, None),
        NewMove(H8, G8, None), NewMove(21, 20, None)},
       {NewMove(20, 27, None), NewMove(36, 27, None), NewMove(20, 13, None)},
       {NewMove(20, 19, None), NewMove(36, 37, None)},
       {NewMove(20, 34, None), NewMove(F8, 34, None), NewMove(20, 13, None)},
       {NewMove(20, 13, None), NewMove(E8, 53, None), NewMove(13, 20, None)},
       {NewMove(20, 37, None), NewMove(36, 37, None), NewMove(14, 20, None)},
       {NewMove(51, 35, None), NewMove(36, 43, None), NewMove(9, 25, None),
        NewMove(26, 17, None), NewMove(51, 43, None), NewMove(9, 17, None),
        NewMove(E8, 52, None), NewMove(E1, 12, None), NullMove},
       {NewMove(8, 24, None), NewMove(49, 33, None), NewMove(24, 33, None),
        NewMove(48, 40, None), NewMove(15, 23, None), NewMove(40, 33, None),
        NewMove(A1, A8, None), NewMove(B8, 42, None), NewMove(A8, A1, None),
        NewMove(C8, 49, None), NewMove(A1, 8, None), NewMove(52, 44, None),
        NewMove(8, 16, None), NewMove(D8, 52, None), NewMove(16, 17, None),
        NewMove(E8, C8, None)} >>

(* The texts handed to SetFen besides the board's own Fen(): one rejected   *)
(* text for each check of the validation, and an accepted one with doubled  *)
(* blanks and a full-move number of 0.                                       *)
BadFens ==
    { <<"4", "k", "3", "/", "8", "/", "8", "/", "8", "/", "8", "/", "8", "/", "8", "/", "4", "K", "3", " ", "w", " ", "-", " ", "-", " ", "0">>,
      <<"4", "k", "3", "/", "8", "/", "8", "/", "8", "/", "8", "/", "8", "/", "4", "K", "3", " ", "w", " ", "-", " ", "-", " ", "0", " ", "1">>,
      <<"4", "k", "3", "/", "8", "/", "8", "/", "8", "/", "8", "/", "8", "/", "8", "/", "4", "K", "2", " ", "w", " ", "-", " ", "-", " ", "0", " ", "1">>,
      <<"4", "k", "3", "/", "8", "/", "8", "/", "8", "/", "8", "/", "8", "/", "8", "/", "4", "K", "1", "2", " ", "w", " ", "-", " ", "-", " ", "0", " ", "1">>,
      <<"4", "k", "3", "/", "8", "/", "8", "/", "8", "/", "8", "/", "8", "/", "8", "/", "4", "X", "3", " ", "w", " ", "-", " ", "-", " ", "0", " ", "1">>,
      <<"4", "k", "3", "/", "8", "/", "8", "/", "8", "/", "8", "/", "8", "/", "8", "/", "4", "K", "3", " ", "x", " ", "-", " ", "-", " ", "0", " ", "1">>,
      <<"4", "k", "3", "/", "8", "/", "8", "/", "8", "/", "8", "/", "8", "/", "8", "/", "4", "K", "3", " ", "w", " ", "Q", "K", " ", "-", " ", "0", " ", "1">>,
      <<"4", "k", "3", "/", "8", "/", "8", "/", "8", "/", "8", "/", "8", "/", "8", "/", "4", "K", "3", " ", "w", " ", "-", " ", "e", "3", " ", "0", " ", "1">>,
      <<"4", "k", "3", "/", "8", "/", "8", "/", "8", "/", "8", "/", "8", "/", "8", "/", "4", "K", "3", " ", "w", " ", "-", " ", "-", " ", "-", "1", " ", "1">>,
      <<"4", "k", "3", "/", "8", "/", "8", "/", "8", "/", "8", "/", "8", "/", "8", "/", "4", "K", "3", " ", "w", " ", "-", " ", "-", " ", "0", " ", "x">> }

OtherFens ==
    { <<"4", "k", "3", "/", "8", "/", "8", "/", "8", "/", "8", "/", "8", "/", "8", "/", "R", "3", "K", "3", " ", " ", "w", " ", "Q", " ", "-", " ", "7", " ", "0", " ">> }

(* The texts handed to SetEpd besides the board's own Epd(): positions    *)
(* other than the one on the board, with and without an operation or a     *)
(* closing semicolon, texts whose position fields are wrong, and a text of  *)
(* three fields.                                                            *)
RookEpd ==
    <<"4", "k", "3", "/", "8", "/", "8", "/", "8", "/", "8", "/", "8", "/", "8", "/", "4", "K", "2", "R", " ", "w", " ", "K", " ", "-">>

SemicolonEpd ==
    <<" ", " ", "4", "k", "3", "/", "8", "/", "8", "/", "2", "p", "5", "/", "8", "/", "8", "/", "8", "/", "4", "K", "3", " ", "b", " ", "-", " ", "-", ";">>

OperationEpd ==
    <<"4", "k", "3", "/", "8", "/", "8", "/", "8", "/", "8", "/", "8", "/", "8", "/", "4", "K", "2", "R", " ", "w", " ", "K", " ", "-", " ", "d", "r", "a", "w", "_", "r", "e", "j", "e", "c", "t">>

ClockEpd ==
    <<"4", "k", "3", "/", "8", "/", "8", "/", "8", "/", "8", "/", "8", "/", "8", "/", "4", "K", "2", "R", " ", "w", " ", "K", " ", "-", " ", "h", "m", "v", "c">>

BadTurnEpd ==
    <<"4", "k", "3", "/", "8", "/", "8", "/", "8", "/", "8", "/", "8", "/", "8", "/", "4", "K", "3", " ", "x", " ", "-", " ", "-">>

BadBoardEpd ==
    <<"4", "k", "3", "/", "8", "/", "8", "/", "8", "/", "8", "/", "8", "/", "8", " ", "w", " ", "-", " ", "-">>

ShortEpd ==
    <<"4", "k", "3", "/", "8", "/", "8", "/", "8", "/", "8", "/", "8", "/", "8", "/", "4", "K", "3", " ", "w", " ", "-">>

GoodEpds == {RookEpd, SemicolonEpd, OperationEpd}

BadEpds == {BadTurnEpd, BadBoardEpd, ShortEpd}

(* The moves rendered by Uci: the nil move and every move between two      *)
(* squares with no promotion or a promotion to knight, bishop, rook, queen. *)
UciMoves ==
    {NullMove} \cup {NewMove(f, t, p) : f \in SquareSet, t \in SquareSet,
                                         p \in {None, Knight, Bishop, Rook, Queen}}

(* The texts handed to MoveFromUci: every text of four characters of       *)
(* UciChars, alone or followed by one character of UciTails, the null move *)
(* literal, and texts of other lengths.                                     *)
UciChars == {"a", "h", "1", "8", "9", "z"}

UciTails == {"q", "n", "x", "1"}

UciSquares == {<<c1, c2, c3, c4>> : c1 \in UciChars, c2 \in UciChars, c3 \in UciChars, c4 \in UciChars}

UciTexts ==
    UciSquares \cup {t \o <<c>> : t \in UciSquares, c \in UciTails}
    \cup {<<"0", "0", "0", "0">>, <<>>, <<"a", "1">>, <<"a", "1", "a", "8", "q", "q">>}

(* The arguments of the query predicates: the nil move, the moves of the   *)
(* game's list, moves and squares inside and just outside 0..63, and a     *)
(* promotion to a king.                                                     *)
QuerySquares == {-1, 0, 28, 60, 63, 64}

QueryMoves ==
    {NullMove, NewMove(49, 57, King)}
    \cup {NewMove(f, t, None) : f \in {-1, 64, 4, 12}, t \in {-1, 64, 28}}

(* The squares and pieces handed to SetPieceAt and RemovePieceAt.          *)
EditSquares == {A1, E1, 28}

EditPieces == {King, Rook}

(* The games exported: the moves added to their nodes, the comments and  *)
(* NAGs of a node, the line widths of the exporters and the orders in     *)
(* which the range loop over the headers yields the keys.                   *)
ExportMoves == {NewMove(12, 28, None), NewMove(G1, 21, None), NewMove(52, 36, None)}
ExportComments == {<<>>, <<"o", "k", "}", " ">>}
ExportNotes ==
    {[comment |-> <<>>, startingComment |-> <<>>, nags |-> <<>>],
     [comment |-> <<"o", "k", "}", " ">>, startingComment |-> <<>>, nags |-> <<3, 1>>],
     [comment |-> <<>>, startingComment |-> <<"o", "r">>, nags |-> <<>>]}
ExportColumns == {0, 4}
HeaderOrder == <<TagEvent, TagSite, TagDate, TagRound, TagWhite, TagBlack, TagResult>>
HeaderOrders ==
    {HeaderOrder, [k \in 1..Len(HeaderOrder) |-> HeaderOrder[Len(HeaderOrder) + 1 - k]]}
ExportLines == {<<>>, <<"x", " ">>}

(* The moves of the variations added to a node of a game tree.            *)
TreeMoves == {NewMove(12, 28, None), NewMove(11, 27, None), NewMove(G1, 21, None)}

MaxFree == 1
MaxPly == 3
MaxPops == 2
MaxFenPly == 2
MaxSanPly == 2
MaxRepPly == 8
MaxLoads == 1
MaxEndPly == 16
MaxPerftDepth == 3
MaxEpPly == 4
MaxEpdPly == 2
MaxQueryPly == 2
MaxEditPly == 1
MaxEdits == 2
MaxPeekPly == 2
MaxTwoOps == 2
MaxChildren == 3
MaxNodes == 5
MaxExportNodes == 3
MaxExportDepth == 3

\* No perft is running: no depth, no call, no node counted.
NoPerft == [depth |-> 0, frames |-> <<>>, nodes |-> 0, done |-> FALSE]

\* No second instance and no threads.
NoTwo == [heap |-> <<>>, inst |-> <<>>, alone |-> <<>>, result |-> <<>>,
          aloneResult |-> <<>>, ops |-> <<>>]

\* No game tree and no exporter.
NoPgn == [op |-> "none"]

VARIABLES b, scn, snaps, last, pops, loads, perft, two, pgn

vars == <<b, scn, snaps, last, pops, loads, perft, two, pgn>>

Started(s, p) ==
    /\ scn = s
    /\ b = p
    /\ snaps = <<>>
    /\ last = [op |-> "New", move |-> NullMove, pre |-> p,
               snap |-> p, err |-> FALSE, text |-> <<>>]
    /\ pops = 0
    /\ loads = 0
    /\ perft = NoPerft
    /\ two = NoTwo
    /\ pgn = NoPgn

Init ==
    \E s \in PlayScenarios : Started(s, NewBitboard(Scenarios[s]))

\* The first free operations on a board as constructed push any legal move;
\* Len(b.moveStack) + 2 * pops is the number of Push and Pop calls made so far.
Allowed(m, free) ==
    (loads = 0 /\ Len(b.moveStack) + 2 * pops < free) \/ m \in Script[scn]

DoPush(free, max) ==
    /\ Len(b.moveStack) < max
    /\ \E m \in Range(AllPseudoLegal(b)) :
          /\ Allowed(m, free)
          /\ ~IsIntoCheck(b, m)
          /\ b' = Push(b, m)
          /\ snaps' = Append(snaps, b)
          /\ last' = [op |-> "Push", move |-> m, pre |-> b,
                      snap |-> b, err |-> FALSE, text |-> <<>>]
    /\ UNCHANGED <<scn, pops, loads, perft, two, pgn>>

DoPushNull(free, max) ==
    /\ Len(b.moveStack) < max
    /\ Allowed(NullMove, free)
    /\ b' = Push(b, NullMove)
    /\ snaps' = Append(snaps, b)
    /\ last' = [op |-> "Push", move |-> NullMove, pre |-> b,
                snap |-> b, err |-> FALSE, text |-> <<>>]
    /\ UNCHANGED <<scn, pops, loads, perft, two, pgn>>

DoPop ==
    /\ Len(b.moveStack) > 0
    /\ pops < MaxPops
    /\ b' = Pop(b)
    /\ snaps' = Drop(snaps)
    /\ last' = [op |-> "Pop", move |-> Top(b.moveStack), pre |-> b,
                snap |-> Top(snaps), err |-> FALSE, text |-> <<>>]
    /\ pops' = pops + 1
    /\ UNCHANGED <<scn, loads, perft, two, pgn>>

PlayPush == DoPush(MaxFree, MaxPly)

PlayPushNull == DoPushNull(MaxFree, MaxPly)

Next == PlayPush \/ PlayPushNull \/ DoPop

Spec == Init /\ [][Next]_vars

-----------------------------------------------------------------------------
(* Games during which FEN texts are loaded.                                 *)
InitFen ==
    \E s \in {1, 2, 4} : Started(s, NewBitboard(Scenarios[s]))

FenPush == DoPush(MaxFree, MaxFenPly)

FenPop == DoPop

\* b.SetFen(text): a load that fails is not counted.
DoSetFen ==
    /\ loads < MaxLoads
    /\ \E text \in {Fen(b)} \cup BadFens \cup OtherFens :
          LET r == SetFen(b, text)
          IN /\ b' = r.b
             /\ snaps' = IF r.err THEN snaps ELSE <<>>
             /\ last' = [op |-> "SetFen", move |-> NullMove, pre |-> b,
                         snap |-> b, err |-> r.err, text |-> text]
             /\ loads' = IF r.err THEN loads ELSE loads + 1
    /\ UNCHANGED <<scn, pops, perft, two, pgn>>

NextFen == FenPush \/ FenPop \/ DoSetFen

SpecFen == InitFen /\ [][NextFen]_vars

-----------------------------------------------------------------------------
(* Games in which the moves of every position are written and read in SAN. *)
SanPush == DoPush(MaxFree, MaxSanPly)

SanPushNull == DoPushNull(MaxFree, MaxSanPly)

NextSan == SanPush \/ SanPushNull

SpecSan == Init /\ [][NextSan]_vars

\* Games played by PushSan: the texts handed in are the SAN of every
\* pseudo-legal move, the same move without its origin, with its origin file
\* and with its origin rank, the castling literals, the null move and a text
\* that is no SAN.
MaxPushSanPly == 2

SanBare(p, m, file, rank) ==
    (IF PieceTypeAt(p, m.fromSquare) = Pawn THEN <<>>
     ELSE <<UpperSymbols[PieceTypeAt(p, m.fromSquare)]>>)
        \o (IF file THEN <<FileNames[fileIndex(m.fromSquare) + 1]>> ELSE <<>>)
        \o (IF rank THEN Itoa(rankIndex(m.fromSquare) + 1) ELSE <<>>)
        \o SquareNames[m.toSquare]
        \o (IF m.promotion > None THEN <<"=", UpperSymbols[m.promotion]>> ELSE <<>>)

SanTokens(p) ==
    {<<"O", "-", "O">>, <<"O", "-", "O", "-", "O">>, <<"-", "-">>, <<"x">>,
     <<"Q", "h", "5">>, <<"e", "5">>}
        \cup {San(p, m) : m \in Range(AllPseudoLegal(p))}
        \cup {SanBare(p, m, file, rank) :
                 m \in Range(AllPseudoLegal(p)), file \in BOOLEAN, rank \in BOOLEAN}

PushedSan(san, r) ==
    /\ b' = r.b
    /\ snaps' = IF r.kind = "" THEN Append(snaps, b) ELSE snaps
    /\ last' = [op |-> "PushSan", move |-> r.move, pre |-> b, snap |-> b,
                err |-> r.kind # "", text |-> san, kind |-> r.kind]

\* move, err := b.PushSan(san); the caller stops at the first error.
DoPushSan ==
    /\ Len(b.moveStack) < MaxPushSanPly
    /\ last.op = "PushSan" => ~last.err
    /\ \E san \in SanTokens(b) : \E r \in {PushSanRun(b, san)} : PushedSan(san, r)
    /\ UNCHANGED <<scn, pops, loads, perft, two, pgn>>

NextPushSan == DoPushSan

SpecPushSan == Init /\ [][NextPushSan]_vars

-----------------------------------------------------------------------------
(* Games during which the position is rendered as EPD with operations.     *)
MaxRenderPly == 1

RenderPush == DoPush(MaxFree, MaxRenderPly)

\* The maps of operations handed to Epd: nil, one operation, two and three.
OpcodeId == <<"i", "d">>
OpcodeBm == <<"b", "m">>
OpcodeHmvc == <<"h", "m", "v", "c">>
EpdMaps(p) ==
    {<< >>,
     [k \in {OpcodeHmvc} |-> IntOperand(p.halfMoveClock)],
     [k \in {OpcodeId, OpcodeHmvc} |->
         IF k = OpcodeId THEN StringOperand(<<"a", ";", "b">>) ELSE IntOperand(p.halfMoveClock)],
     [k \in {OpcodeId, OpcodeHmvc, OpcodeBm} |->
         IF k = OpcodeId THEN NilOperand
         ELSE IF k = OpcodeHmvc THEN IntOperand(p.fullMoveNumber)
         ELSE MoveOperand(NullMove)]}
        \cup {[k \in {OpcodeBm, OpcodeId} |->
                 IF k = OpcodeBm THEN MoveOperand(m) ELSE StringOperand(<<"x">>)] :
                 m \in Range(AllLegal(p))}

Rendered(operations, r) ==
    /\ b' = r.b
    /\ last' = [op |-> "Epd", move |-> NullMove, pre |-> b, snap |-> b, err |-> FALSE,
                text |-> r.text, operations |-> operations]

\* b.Epd(operations); a caller that calls Epd again repeats its call.
DoEpd ==
    /\ \E operations \in EpdMaps(b) :
          /\ last.op = "Epd" => operations = last.operations
          /\ \E order \in MapOrders(DOMAIN operations) :
                \E r \in {EpdRun(b, operations, order)} : Rendered(operations, r)
    /\ UNCHANGED <<scn, snaps, pops, loads, perft, two, pgn>>

NextRender == RenderPush \/ DoEpd

InitRender ==
    \E s \in {2, 4, 5} : Started(s, NewBitboard(Scenarios[s]))

SpecRender == InitRender /\ [][NextRender]_vars

-----------------------------------------------------------------------------
(* Games during which the queries that try moves on the board are called.  *)
MaxTrialPly == 3

InitTrial ==
    \E s \in {2, 4, 5} : Started(s, NewBitboard(Scenarios[s]))

TrialPush == DoPush(0, MaxTrialPly)

\* A query was called after the construction or after a move: its name, its
\* argument, what it returned and the receiver afterwards.
Tried(name, move, result, after) ==
    /\ last.op \in {"New", "Push"}
    /\ b' = after
    /\ last' = [op |-> name, move |-> move, pre |-> b, snap |-> b, err |-> FALSE,
                text |-> <<>>, result |-> result]
    /\ UNCHANGED <<scn, snaps, pops, loads, perft, two, pgn>>

\* b.IsIntoCheck(move) for a pseudo-legal move
DoIsIntoCheck ==
    \E move \in Range(AllPseudoLegal(b)) :
        \E r \in {IsIntoCheckRun(b, move)} : Tried("IsIntoCheck", move, r.isCheck, r.b)

\* b.GenerateLegalMoves(true, true, true, true, true, true, true)
DoGenerateLegalMoves ==
    \E r \in {GenerateLegalMovesRun(b, TRUE, TRUE, TRUE, TRUE, TRUE, TRUE, TRUE)} :
        Tried("GenerateLegalMoves", NullMove, r.moves, r.b)

\* b.IsLegal(move) for a pseudo-legal move or a move of the caller's list
TrialIsLegal ==
    \E move \in (Range(AllPseudoLegal(b)) \cup Script[scn]) \ {NullMove} :
        \E r \in {IsLegalCall(b, move)} : Tried("IsLegal", move, r.result, r.b)

\* b.San(move) for a legal move
DoSan ==
    \E move \in Range(AllPseudoLegal(b)) :
        /\ ~IsIntoCheck(b, move)
        /\ \E r \in {SanRun(b, move)} : Tried("San", move, r.text, r.b)

\* b.CanClaimThreefoldRepitition()
DoCanClaimThreefoldRepitition ==
    \E r \in {CanClaimThreefoldRepititionRun(b)} :
        Tried("CanClaimThreefoldRepitition", NullMove, r.result, r.b)

\* b.IsFivefoldRepitition()
TrialIsFivefoldRepitition ==
    \E r \in {IsFivefoldRepititionRun(b)} :
        Tried("IsFivefoldRepitition", NullMove, r.result, r.b)

NextTrial ==
    \/ TrialPush
    \/ DoIsIntoCheck
    \/ DoGenerateLegalMoves
    \/ TrialIsLegal
    \/ DoSan
    \/ DoCanClaimThreefoldRepitition
    \/ TrialIsFivefoldRepitition

SpecTrial == InitTrial /\ [][NextTrial]_vars

-----------------------------------------------------------------------------
(* A SquareSet whose squares are received from the channel of Iter().       *)
(* two.mask is the set, two.square the variable of the producer goroutine,  *)
(* two.producer its position ("loop" or "returned"), two.consumer the       *)
(* position of the range loop that receives ("range" or "done"),            *)
(* two.received what it received and two.closed whether the channel is      *)
(* closed.                                                                  *)
MaxSetSize == 3
IterSquares == {0, 1, 7, 36, 62, 63}
IterMasks == {mask \in SUBSET IterSquares : Cardinality(mask) <= MaxSetSize}

\* ch := NewSquareSet(mask).Iter(): the goroutine has made its first bitScan.
InitIter ==
    /\ scn = 1
    /\ b = NewBitboard(Scenarios[1])
    /\ snaps = <<>>
    /\ last = [op |-> "New", move |-> NullMove, pre |-> b,
               snap |-> b, err |-> FALSE, text |-> <<>>]
    /\ pops = 0
    /\ loads = 0
    /\ perft = NoPerft
    /\ pgn = NoPgn
    /\ \E mask \in IterMasks :
          two = [op |-> "Iter", mask |-> mask, square |-> bitScan(mask, 0).result,
                 producer |-> "loop", consumer |-> "range", received |-> <<>>,
                 closed |-> FALSE]

\* The receive of the range loop: on a closed channel the loop ends; else it
\* takes the square the producer sends (the channel has no buffer, so send
\* and receive happen together) and the producer scans on.
IterReceive ==
    /\ two.consumer = "range"
    /\ IF two.closed THEN TRUE ELSE two.producer = "loop" /\ two.square # -1
    /\ two' = IF two.closed THEN [two EXCEPT !.consumer = "done"]
              ELSE [two EXCEPT !.received = Append(@, two.square),
                               !.square = bitScan(two.mask, two.square + 1).result,
                               !.producer = IF bitScan(two.mask, two.square + 1).panic
                                            THEN "panicked" ELSE @]
    /\ UNCHANGED <<b, scn, snaps, last, pops, loads, perft, pgn>>

\* The producer leaves its loop and the goroutine ends: the function literal
\* has no statement after the loop.
IterReturn ==
    /\ two.producer = "loop"
    /\ two.square = -1
    /\ two' = [two EXCEPT !.producer = "returned"]
    /\ UNCHANGED <<b, scn, snaps, last, pops, loads, perft, pgn>>

NextIter == IterReceive \/ IterReturn

SpecIter == InitIter /\ [][NextIter]_vars

\* The scheduler lets a goroutine that can take a step take it.
SpecIterLive == SpecIter /\ WF_vars(IterReceive) /\ WF_vars(IterReturn)

-----------------------------------------------------------------------------
(* bitScan and popCount called with any value of a few bits and any n.      *)
MaxBits == 3
BitSquares == {0, 1, 2, 5, 62, 63}
BitMasks == {mask \in SUBSET BitSquares : Cardinality(mask) <= MaxBits}

InitBits ==
    /\ scn = 1
    /\ b = NewBitboard(Scenarios[1])
    /\ snaps = <<>>
    /\ last = [op |-> "New", move |-> NullMove, pre |-> b,
               snap |-> b, err |-> FALSE, text |-> <<>>]
    /\ pops = 0
    /\ loads = 0
    /\ perft = NoPerft
    /\ pgn = NoPgn
    /\ \E mask \in BitMasks :
          two = [op |-> "New", mask |-> mask, n |-> 0, panic |-> FALSE, result |-> 0]

\* bitScan(mask, n)
DoBitScan ==
    /\ two.op = "New"
    /\ \E n \in 0..64 :
          two' = [op |-> "bitScan", mask |-> two.mask, n |-> n,
                  panic |-> bitScan(two.mask, n).panic, result |-> bitScan(two.mask, n).result]
    /\ UNCHANGED <<b, scn, snaps, last, pops, loads, perft, pgn>>

\* popCount(mask)
DoPopCount ==
    /\ two.op = "New"
    /\ two' = [op |-> "popCount", mask |-> two.mask, n |-> 0, panic |-> FALSE,
               result |-> popCountLoop(two.mask, 0)]
    /\ UNCHANGED <<b, scn, snaps, last, pops, loads, perft, pgn>>

NextBits == DoBitScan \/ DoPopCount

SpecBits == InitBits /\ [][NextBits]_vars

-----------------------------------------------------------------------------
(* The knight dance: from the initial position both sides move knights out *)
(* and back, and moves are taken back, so that positions recur.             *)
InitRep == Started(7, NewBitboard(Scenarios[7]))

RepPush == DoPush(0, MaxRepPly)

RepPop == DoPop

NextRep == RepPush \/ RepPop

SpecRep == InitRep /\ [][NextRep]_vars

-----------------------------------------------------------------------------
(* Games that come to an end: the long knight dance, in which both sides   *)
(* move a knight out and back and White may once develop the other knight, *)
(* and the endings.  After a move the caller may ask for a repetition.     *)
EndScenarios == 8..17

InitEnd ==
    \E s \in EndScenarios : Started(s, NewBitboard(Scenarios[s]))

EndPush == DoPush(0, MaxEndPly)

\* b.IsFivefoldRepitition(): the receiver is popped and pushed again.
DoIsFivefoldRepitition ==
    /\ last.op \in {"New", "Push"}
    /\ b' = IsFivefoldRepititionRun(b).b
    /\ last' = [op |-> "IsFivefoldRepitition", move |-> NullMove, pre |-> b,
                snap |-> b, err |-> FALSE, text |-> <<>>]
    /\ UNCHANGED <<scn, snaps, pops, loads, perft, two, pgn>>

NextEnd == EndPush \/ DoIsFivefoldRepitition

SpecEnd == InitEnd /\ [][NextEnd]_vars

-----------------------------------------------------------------------------
(* Games during which EPD texts are loaded.                                 *)
EpdPush == DoPush(MaxFree, MaxEpdPly)

\* b.SetEpd(text).  After a panic nothing more is done with the board.
DoSetEpd ==
    /\ loads < MaxLoads
    /\ \E text \in {Epd(b)} \cup GoodEpds \cup BadEpds \cup {ClockEpd} :
          LET r == SetEpd(b, text)
          IN /\ b' = r.b
             /\ last' = [op |-> IF r.panic THEN "panic" ELSE "SetEpd", move |-> NullMove,
                         pre |-> b, snap |-> b, err |-> r.err, text |-> text]
             /\ loads' = loads + 1
    /\ UNCHANGED <<scn, snaps, pops, perft, two, pgn>>

NextEpd == EpdPush \/ DoSetEpd

SpecEpd == Init /\ [][NextEpd]_vars

-----------------------------------------------------------------------------
(* Rendering and parsing of UCI move texts beside a board.                  *)
InitUci == Started(1, NewBitboard(Scenarios[1]))

\* move.Uci() on a move the caller built.
DoUci ==
    /\ last.op = "New"
    /\ \E move \in UciMoves :
          last' = [op |-> "Uci", move |-> move, pre |-> b, snap |-> b,
                   err |-> FALSE, text |-> Uci(move)]
    /\ UNCHANGED <<b, scn, snaps, pops, loads, perft, two, pgn>>

\* MoveFromUci(text) on a text of the caller, or on the text Uci() returned.
DoMoveFromUci ==
    /\ last.op \in {"New", "Uci"}
    /\ \E text \in (IF last.op = "Uci" THEN {last.text} ELSE UciTexts) :
          last' = [op |-> "MoveFromUci", move |-> MoveFromUci(text), pre |-> b,
                   snap |-> b, err |-> FALSE, text |-> text]
    /\ UNCHANGED <<b, scn, snaps, pops, loads, perft, two, pgn>>

NextUci == DoUci \/ DoMoveFromUci

SpecUci == InitUci /\ [][NextUci]_vars

-----------------------------------------------------------------------------
(* Games during which the query predicates are called with any argument.    *)
QueryPush == DoPush(MaxFree, MaxQueryPly)

Queried(name, move, square, r) ==
    /\ b' = r.b
    /\ last' = [op |-> name, move |-> move, pre |-> b, snap |-> b, err |-> FALSE,
                text |-> <<>>, square |-> square, panic |-> r.panic, result |-> r.result]
    /\ UNCHANGED <<scn, snaps, pops, loads, perft, two, pgn>>

\* b.IsPseudoLegal(move)
DoIsPseudoLegal ==
    \E move \in QueryMoves \cup Script[scn] :
        Queried("IsPseudoLegal", move, 0, IsPseudoLegalCall(b, move))

\* b.IsLegal(move)
DoIsLegal ==
    \E move \in QueryMoves \cup Script[scn] :
        Queried("IsLegal", move, 0, IsLegalCall(b, move))

\* b.IsAttackedBy(color, square)
DoIsAttackedBy ==
    \E color \in {White, Black}, square \in QuerySquares :
        Queried("IsAttackedBy", NullMove, square, IsAttackedByCall(b, color, square))

NextQuery == QueryPush \/ DoIsPseudoLegal \/ DoIsLegal \/ DoIsAttackedBy

SpecQuery == Init /\ [][NextQuery]_vars

-----------------------------------------------------------------------------
(* Games during which the board is edited: Reset, Clear, SetFen, SetPieceAt *)
(* and RemovePieceAt between the moves.  loads counts the edits.  A square  *)
(* is edited while no move is waiting to be popped: Pop takes the position  *)
(* Push left.                                                               *)
\* b.Push(move) with a generated legal move that IsPseudoLegal accepts: on an
\* edited board without a king the generator offers king moves from the
\* square of the king-square cache, which are no moves of a piece.
EditPush ==
    /\ Len(b.moveStack) < MaxEditPly
    /\ \E m \in Range(AllPseudoLegal(b)) :
          /\ Allowed(m, MaxFree)
          /\ IsPseudoLegal(b, m)
          /\ ~IsIntoCheck(b, m)
          /\ b' = Push(b, m)
          /\ snaps' = Append(snaps, b)
          /\ last' = [op |-> "Push", move |-> m, pre |-> b,
                      snap |-> b, err |-> FALSE, text |-> <<>>]
    /\ UNCHANGED <<scn, pops, loads, perft, two, pgn>>

EditPop == DoPop

Edited(name, board, stacks) ==
    /\ loads < MaxEdits
    /\ b' = board
    /\ snaps' = stacks
    /\ last' = [op |-> name, move |-> NullMove, pre |-> b, snap |-> b,
                err |-> FALSE, text |-> <<>>]
    /\ loads' = loads + 1
    /\ UNCHANGED <<scn, pops, perft, two, pgn>>

\* b.Reset()
DoReset == Edited("Reset", Reset(b), <<>>)

\* b.Clear()
DoClear == Edited("Clear", Clear(b), <<>>)

\* b.SetFen(text) with a text that is accepted
EditSetFen ==
    \E text \in OtherFens : Edited("SetFen", SetFen(b, text).b, <<>>)

\* b.SetPieceAt(square, NewPiece(pieceType, color))
DoSetPieceAt ==
    /\ Len(b.moveStack) = 0
    /\ \E square \in EditSquares, pieceType \in EditPieces, color \in {White, Black} :
          Edited("SetPieceAt", SetPieceAt(b, square, pieceType, color), snaps)

\* b.RemovePieceAt(square)
DoRemovePieceAt ==
    /\ Len(b.moveStack) = 0
    /\ \E square \in EditSquares :
          Edited("RemovePieceAt", RemovePieceAt(b, square), snaps)

NextEdit ==
    \/ EditPush \/ EditPop
    \/ DoReset \/ DoClear \/ EditSetFen \/ DoSetPieceAt \/ DoRemovePieceAt

SpecEdit == Init /\ [][NextEdit]_vars

-----------------------------------------------------------------------------
(* Games during which the last move is looked at, and which are restarted   *)
(* by Reset, Clear and SetFen.                                              *)
PeekPush == DoPush(MaxFree, MaxPeekPly)

PeekPushNull == DoPushNull(MaxFree, MaxPeekPly)

PeekPop == DoPop

\* b.Peek() with a move on the stack
DoPeek ==
    /\ Len(b.moveStack) > 0
    /\ b' = PeekBoard(b)
    /\ last' = [op |-> "Peek", move |-> Peek(b), pre |-> b, snap |-> b,
                err |-> FALSE, text |-> <<>>]
    /\ UNCHANGED <<scn, snaps, pops, loads, perft, two, pgn>>

NextPeek ==
    \/ PeekPush \/ PeekPushNull \/ PeekPop \/ DoPeek
    \/ DoReset \/ DoClear \/ EditSetFen

SpecPeek == Init /\ [][NextPeek]_vars

-----------------------------------------------------------------------------
(* Two Bitboard instances, each used by a thread of its own.  two.heap is   *)
(* the memory, two.inst[t] the struct of thread t with the addresses of its *)
(* objects, two.result[t] what the thread's last call returned;             *)
(* two.alone[t] and two.aloneResult[t] are the same calls made on a         *)
(* Bitboard nobody else is near.                                            *)
TwoFens == <<Scenarios[1], Scenarios[2]>>

InitTwo ==
    /\ scn = 1
    /\ b = NewBitboard(Scenarios[1])
    /\ snaps = <<>>
    /\ last = [op |-> "New", move |-> NullMove, pre |-> b,
               snap |-> b, err |-> FALSE, text |-> <<>>]
    /\ pops = 0
    /\ loads = 0
    /\ perft = NoPerft
    /\ pgn = NoPgn
    /\ LET first == NewInstance(<<>>, TwoFens[1])
           second == NewInstance(first.heap, TwoFens[2])
       IN two = [heap |-> second.heap,
                 inst |-> <<first.inst, second.inst>>,
                 alone |-> <<NewBitboard(TwoFens[1]), NewBitboard(TwoFens[2])>>,
                 result |-> <<NullMove, NullMove>>,
                 aloneResult |-> <<NullMove, NullMove>>,
                 ops |-> <<0, 0>>]

TwoView(t) == View(two.heap, two.inst[t])

\* A call of thread t that works on the objects the struct points to.
TwoInPlace(t, after, result, aloneAfter, aloneResult) ==
    /\ two.ops[t] < MaxTwoOps
    /\ two' = [two EXCEPT !.heap = StoreInPlace(@, two.inst[t].refs, after),
                          !.inst[t].val = Scalars(after),
                          !.alone[t] = aloneAfter,
                          !.result[t] = result,
                          !.aloneResult[t] = aloneResult,
                          !.ops[t] = @ + 1]
    /\ UNCHANGED <<b, scn, snaps, last, pops, loads, perft, pgn>>

\* A call of thread t that gives the struct new objects.
TwoFresh(t, after, aloneAfter) ==
    /\ two.ops[t] < MaxTwoOps
    /\ two' = [two EXCEPT !.heap = StoreFresh(@, FreshRefs(two.heap), after),
                          !.inst[t] = [val |-> Scalars(after), refs |-> FreshRefs(two.heap)],
                          !.alone[t] = aloneAfter,
                          !.result[t] = NullMove,
                          !.aloneResult[t] = NullMove,
                          !.ops[t] = @ + 1]
    /\ UNCHANGED <<b, scn, snaps, last, pops, loads, perft, pgn>>

\* The board of thread t as it is (1) and as it would be alone (2).
TwoBoards(t) == <<TwoView(t), two.alone[t]>>

TwoPush ==
    \E t \in 1..2 : \E m \in Script[t] :
        /\ IsLegal(TwoView(t), m)
        /\ TwoInPlace(t, Push(TwoView(t), m), NullMove, Push(two.alone[t], m), NullMove)

TwoPop ==
    \E t \in 1..2 :
        /\ Len(TwoView(t).moveStack) > 0
        /\ Len(two.alone[t].moveStack) > 0
        /\ TwoInPlace(t, Pop(TwoView(t)), Peek(TwoView(t)),
                      Pop(two.alone[t]), Peek(two.alone[t]))

TwoSetFen ==
    \E t \in 1..2 : \E text \in OtherFens :
        TwoFresh(t, SetFen(TwoView(t), text).b, SetFen(two.alone[t], text).b)

TwoReset ==
    \E t \in 1..2 : TwoFresh(t, Reset(TwoView(t)), Reset(two.alone[t]))

TwoGenerated(t, runs) ==
    TwoInPlace(t, runs[1].b, runs[1].moves, runs[2].b, runs[2].moves)

TwoGenerate ==
    \E t \in 1..2 :
        TwoGenerated(t, [i \in 1..2 |->
            GenerateLegalMovesRun(TwoBoards(t)[i], TRUE, TRUE, TRUE, TRUE, TRUE, TRUE, TRUE)])

TwoRepeated(t, runs) ==
    TwoInPlace(t, runs[1].b, runs[1].result, runs[2].b, runs[2].result)

TwoRepetition ==
    \E t \in 1..2 :
        TwoRepeated(t, [i \in 1..2 |-> IsFivefoldRepititionRun(TwoBoards(t)[i])])

NextTwo ==
    \/ TwoPush \/ TwoPop \/ TwoSetFen \/ TwoReset \/ TwoGenerate \/ TwoRepetition

SpecTwo == InitTwo /\ [][NextTwo]_vars

-----------------------------------------------------------------------------
(* A node of a game tree whose variations are added, promoted and removed.  *)
(* pgn.variations are the children, pgn.made the number of nodes created,  *)
(* pgn.op, pgn.move and pgn.pre the last call and the children before it,   *)
(* pgn.panic whether it panicked (nothing is called after a panic).         *)
InitTree ==
    /\ scn = 1
    /\ b = NewBitboard(Scenarios[1])
    /\ snaps = <<>>
    /\ last = [op |-> "New", move |-> NullMove, pre |-> b,
               snap |-> b, err |-> FALSE, text |-> <<>>]
    /\ pops = 0
    /\ loads = 0
    /\ perft = NoPerft
    /\ two = NoTwo
    /\ pgn = [op |-> "NewGame", move |-> NullMove, pre |-> <<>>, variations |-> <<>>,
              made |-> 0, panic |-> FALSE]

TreeCalled(name, move, r, made) ==
    /\ ~pgn.panic
    /\ pgn' = [op |-> name, move |-> move, pre |-> pgn.variations,
               variations |-> r.variations, made |-> made, panic |-> r.panic]
    /\ UNCHANGED <<b, scn, snaps, last, pops, loads, perft, two>>

\* g.AddVariation(move, "", "", nil)
DoAddVariation ==
    /\ Len(pgn.variations) < MaxChildren
    /\ pgn.made < MaxNodes
    /\ \E move \in TreeMoves :
          TreeCalled("AddVariation", move,
                     [panic |-> FALSE, variations |-> AddVariation(pgn.variations, move, pgn.made + 1)],
                     pgn.made + 1)

\* g.AddMainVariation(move, "")
DoAddMainVariation ==
    /\ Len(pgn.variations) < MaxChildren
    /\ pgn.made < MaxNodes
    /\ \E move \in TreeMoves :
          TreeCalled("AddMainVariation", move,
                     AddMainVariation(pgn.variations, move, pgn.made + 1), pgn.made + 1)

\* g.PromoteToMain(move) with the move of a child
DoPromoteToMain ==
    \E k \in 1..Len(pgn.variations) :
        TreeCalled("PromoteToMain", pgn.variations[k].move,
                   PromoteToMain(pgn.variations, pgn.variations[k].move), pgn.made)

\* g.RemoveVariation(move) with the move of a child
DoRemoveVariation ==
    \E k \in 1..Len(pgn.variations) :
        TreeCalled("RemoveVariation", pgn.variations[k].move,
                   RemoveVariation(pgn.variations, pgn.variations[k].move), pgn.made)

NextTree == DoAddVariation \/ DoAddMainVariation \/ DoPromoteToMain \/ DoRemoveVariation

SpecTree == InitTree /\ [][NextTree]_vars

-----------------------------------------------------------------------------
(* Games that are built and exported.  pgn.nodes and pgn.Headers are the    *)
(* game, pgn.string a StringExporter and pgn.file a FileExporter of the     *)
(* same width; an Export hands both the same calls, pgn.calls are their     *)
(* names, pgn.id and the flags the arguments, pgn.panic and pgn.overflow    *)
(* how the call ended.  Nothing is added to a game after its export.        *)
InitExport ==
    /\ scn = 1
    /\ b = NewBitboard(Scenarios[1])
    /\ snaps = <<>>
    /\ last = [op |-> "New", move |-> NullMove, pre |-> b,
               snap |-> b, err |-> FALSE, text |-> <<>>]
    /\ pops = 0
    /\ loads = 0
    /\ perft = NoPerft
    /\ two = NoTwo
    /\ \E columns \in ExportColumns, comment \in ExportComments :
          pgn = [op |-> "NewGame",
                 nodes |-> <<[parent |-> -1, move |-> NullMove, nags |-> <<>>,
                              startingComment |-> <<>>, comment |-> comment,
                              variations |-> <<>>]>>,
                 Headers |-> NewGameHeaders,
                 string |-> NewStringExporter(columns),
                 file |-> NewFileExporter(columns),
                 calls |-> <<>>, id |-> 0, comments |-> FALSE, variations |-> FALSE,
                 headers |-> FALSE, panic |-> FALSE, overflow |-> FALSE]

Game(order) == [nodes |-> pgn.nodes, Headers |-> pgn.Headers, order |-> order]

\* node.AddVariation(move, comment, startingComment, nags) with a move that is
\* legal in the position of the node.
GameAddVariation ==
    /\ pgn.op \in {"NewGame", "AddVariation"}
    /\ Len(pgn.nodes) < MaxExportNodes
    /\ \E parent \in 0..(Len(pgn.nodes) - 1), move \in ExportMoves, note \in ExportNotes :
          /\ IsLegal(NodeBoard(Game(<<>>), parent), move)
          /\ pgn' = [pgn EXCEPT
                       !.op = "AddVariation",
                       !.nodes = Append([@ EXCEPT ![parent + 1].variations =
                                            AddVariation(@, move, Len(pgn.nodes))],
                                        [parent |-> parent, move |-> move,
                                         nags |-> note.nags,
                                         startingComment |-> note.startingComment,
                                         comment |-> note.comment,
                                         variations |-> <<>>])]
    /\ UNCHANGED <<b, scn, snaps, last, pops, loads, perft, two>>

\* The nodes whose NAGs an exporter was handed: PutNags sorts the slice of
\* the node in place.
NagsPut(calls) ==
    {calls[i].id : i \in {j \in 1..Len(calls) : calls[j].name = "PutNags"}}

\* The state after the calls of r have reached the two exporters:
\* receivers[1] is the StringExporter, receivers[2] the one embedded in the
\* FileExporter.
ExportedBoth(id, comments, variations, headers, r, receivers) ==
    pgn' = [pgn EXCEPT
              !.op = "Export", !.id = id, !.comments = comments,
              !.variations = variations, !.headers = headers,
              !.calls = [k \in 1..Len(r.calls) |-> r.calls[k].name],
              !.string = receivers[1],
              !.file = FileExporterCalls(@, receivers[2]),
              !.nodes = [k \in 1..Len(pgn.nodes) |->
                           IF k - 1 \in NagsPut(r.calls)
                           THEN [pgn.nodes[k] EXCEPT !.nags = SortInts(@)]
                           ELSE pgn.nodes[k]],
              !.panic = r.panic, !.overflow = r.overflow]
ExportedTo(id, comments, variations, headers, r) ==
    ExportedBoth(id, comments, variations, headers, r,
                 [i \in 1..2 |->
                    StringExporterCalls(<<pgn.string, pgn.file.string>>[i], r.calls)])

\* node.Export(exporter, comments, variations, nil, false, headers) with each
\* of the two exporters.
DoExport ==
    /\ pgn.op \in {"NewGame", "AddVariation"}
    /\ \E id \in 0..(Len(pgn.nodes) - 1), comments \in BOOLEAN, variations \in BOOLEAN,
          headers \in BOOLEAN, order \in HeaderOrders :
          ExportedTo(id, comments, variations, headers,
                     Export(Game(order), id, comments, variations, NilBoard, FALSE,
                            headers, MaxExportDepth))
    /\ UNCHANGED <<b, scn, snaps, last, pops, loads, perft, two>>

\* exporter.WriteLine(line) called on each exporter itself.
DoWriteLine ==
    /\ pgn.op = "Export"
    /\ \E line \in ExportLines :
          pgn' = [pgn EXCEPT !.op = "WriteLine",
                             !.string = StringWriteLine(@, line),
                             !.file = FileWriteLine(@, line)]
    /\ UNCHANGED <<b, scn, snaps, last, pops, loads, perft, two>>

\* exporter.FlushCurrentLine() called on each exporter itself.
DoFlushCurrentLine ==
    /\ pgn.op = "Export"
    /\ pgn' = [pgn EXCEPT !.op = "FlushCurrentLine",
                          !.string = StringFlushCurrentLine(@),
                          !.file = FileFlushCurrentLine(@)]
    /\ UNCHANGED <<b, scn, snaps, last, pops, loads, perft, two>>

NextExport == GameAddVariation \/ DoExport \/ DoWriteLine \/ DoFlushCurrentLine

SpecExport == InitExport /\ [][NextExport]_vars

-----------------------------------------------------------------------------
(* Games with pawn double pushes next to an enemy pawn, followed by the    *)
(* capture en passant, by another move or by a null move.                  *)
InitEp == Started(18, NewBitboard(Scenarios[18]))

EpPush == DoPush(0, MaxEpPly)

EpPushNull == DoPushNull(0, MaxEpPly)

NextEp == EpPush \/ EpPushNull

SpecEp == InitEp /\ [][NextEp]_vars

\* The same games with the moves, null moves included, taken back.
NullPop == DoPop

NextNull == EpPush \/ EpPushNull \/ NullPop

SpecNull == InitEp /\ [][NextNull]_vars

-----------------------------------------------------------------------------
(* A game from the initial position in which the a-file is opened and a    *)
(* rook goes from corner to corner and back.                                *)
MaxCornerPly == 16

InitCorner == Started(19, NewBitboard(Scenarios[19]))

CornerPush == DoPush(0, MaxCornerPly)

NextCorner == CornerPush

SpecCorner == InitCorner /\ [][NextCorner]_vars

-----------------------------------------------------------------------------
(* Perft from the position of Reset(), to each depth.  The calls whose     *)
(* depth is above 1 are walked step by step: perft.frames holds, for each  *)
(* call that has generated its moves, the moves and the index of the next  *)
(* one; a call of depth 1 or less is counted at once.                       *)
InitPerft ==
    \E depth \in 1..MaxPerftDepth :
        /\ scn = 1
        /\ b = Reset(NewBitboard(Scenarios[1]))
        /\ snaps = <<>>
        /\ last = [op |-> "Reset", move |-> NullMove, pre |-> b,
                   snap |-> b, err |-> FALSE, text |-> <<>>]
        /\ pops = 0
        /\ loads = 0
        /\ perft = [depth |-> depth, frames |-> <<>>, nodes |-> 0, done |-> FALSE]
        /\ two = NoTwo
        /\ pgn = NoPgn

\* The call at the current node has not generated its moves yet.
PerftEntered == ~perft.done /\ Len(perft.frames) = Len(b.moveStack)
\* The call at the current node is in its loop over the generated moves.
PerftInLoop == Len(perft.frames) = Len(b.moveStack) + 1
\* The depth argument of the call at the current node.
PerftDepthHere == perft.depth - Len(b.moveStack)

\* moves := b.GenerateLegalMoves(...) at the start of a call.
PerftGenerate ==
    LET generated(run) ==
            /\ b' = run.b
            /\ perft' = [perft EXCEPT !.frames = Append(@, [moves |-> run.moves, next |-> 1])]
    IN /\ PerftEntered
       /\ PerftDepthHere > 1
       /\ generated(GenerateLegalMovesRun(b, TRUE, TRUE, TRUE, TRUE, TRUE, TRUE, TRUE))
       /\ UNCHANGED <<scn, snaps, last, pops, loads, two, pgn>>

\* b.Push(move) for the next move of the loop, entering the call below it.
PerftPush ==
    LET frame == Top(perft.frames)
    IN /\ PerftInLoop
       /\ frame.next <= Len(frame.moves)
       /\ b' = Push(b, frame.moves[frame.next])
       /\ perft' = [perft EXCEPT !.frames[Len(perft.frames)].next = @ + 1]
       /\ UNCHANGED <<scn, snaps, last, pops, loads, two, pgn>>

\* A call of depth 1 or less runs to its end; its caller adds the count and
\* pops the move.
PerftCount ==
    LET counted(run) ==
            /\ b' = IF Len(b.moveStack) = 0 THEN run.b ELSE Pop(run.b)
            /\ perft' = [perft EXCEPT !.nodes = @ + run.nodes,
                                      !.done = Len(b.moveStack) = 0]
    IN /\ PerftEntered
       /\ PerftDepthHere <= 1
       /\ counted(PerftRun(b, PerftDepthHere))
       /\ UNCHANGED <<scn, snaps, last, pops, loads, two, pgn>>

\* The loop of a call is over: it returns, and its caller pops the move.
PerftReturn ==
    LET frame == Top(perft.frames)
    IN /\ PerftInLoop
       /\ frame.next > Len(frame.moves)
       /\ b' = IF Len(b.moveStack) = 0 THEN b ELSE Pop(b)
       /\ perft' = [perft EXCEPT !.frames = Drop(@),
                                 !.done = Len(b.moveStack) = 0]
       /\ UNCHANGED <<scn, snaps, last, pops, loads, two, pgn>>

NextPerft == PerftGenerate \/ PerftPush \/ PerftCount \/ PerftReturn

SpecPerft == InitPerft /\ [][NextPerft]_vars

-----------------------------------------------------------------------------
(* Make/unmake properties                                                  *)

\* The moves of a game that are not the null move.
RealMove(m) == m # NullMove

\* Position p reads to a caller as position q: same FEN, same Zobrist hash,
\* same repetition counts.
SameObservation(p, q) ==
    /\ Fen(p) = Fen(q)
    /\ ZobristHash(p) = ZobristHash(q)
    /\ p.transpositions = q.transpositions

\* C1: after Pop of a legal move the FEN, the Zobrist hash and the repetition
\* counts are those the position had right before the matching Push, at every
\* nesting depth.
C1_PopRestoresPush ==
    (last.op = "Pop" /\ RealMove(last.move)) => SameObservation(b, last.snap)

\* C2: every Push, the null move included, adds one to the count of the
\* position it reaches, every Pop takes one from the count of the position it
\* leaves, and no count is ever negative.
C2_RepetitionCountsSymmetric ==
    /\ \A h \in DOMAIN b.transpositions : b.transpositions[h] >= 0
    /\ last.op = "Push" =>
          MapGet(b.transpositions, ZobristHash(b))
              = MapGet(last.pre.transpositions, ZobristHash(b)) + 1
    /\ last.op = "Pop" =>
          MapGet(b.transpositions, ZobristHash(last.pre))
              = MapGet(last.pre.transpositions, ZobristHash(last.pre)) - 1

\* The castling rights that Push(m) must have cleared: both rights of a side
\* whose king square is the source of m, and the right of every corner that is
\* the source or the destination of m.
MustBeRevoked(m) ==
    (IF m.fromSquare = E1 THEN CastlingWhite ELSE {})
        \cup (IF m.fromSquare = E8 THEN CastlingBlack ELSE {})
        \cup (IF A1 \in {m.fromSquare, m.toSquare} THEN CastlingWhiteQueenSide ELSE {})
        \cup (IF H1 \in {m.fromSquare, m.toSquare} THEN CastlingWhiteKingSide ELSE {})
        \cup (IF A8 \in {m.fromSquare, m.toSquare} THEN CastlingBlackQueenSide ELSE {})
        \cup (IF H8 \in {m.fromSquare, m.toSquare} THEN CastlingBlackKingSide ELSE {})

\* C3: after Push(m) no castling right remains whose king square was the
\* source of m or whose rook corner was the source or the destination of m,
\* a move from one corner to another clearing the rights of both corners.
C3_CastlingRightsRevoked ==
    (last.op = "Push" /\ RealMove(last.move)) =>
        b.castlingRights \cap MustBeRevoked(last.move) = {}

\* C4: PseudoLegalMoveCount returns the length of the list that
\* GeneratePseudoLegalMoves returns with every flag set, for either side to move.
C4_MoveCountMatchesGeneration ==
    PseudoLegalMoveCount(b) = Len(AllPseudoLegal(b))

-----------------------------------------------------------------------------
(* FEN properties                                                          *)

\* The last call was b.SetFen(b.Fen()).
LoadedOwnFen == last.op = "SetFen" /\ last.text = Fen(last.pre)

\* C5: loading the text Fen() returns for a position reached by Push and Pop
\* succeeds, and Fen() then returns the identical text.
C5_FenRoundTrip ==
    LoadedOwnFen => (~last.err /\ Fen(b) = last.text)

\* C5 happens: the own FEN of a position reached by pushes and a Pop, with an
\* en-passant square and castling rights to write, was loaded.
C5_Witness ==
    /\ LoadedOwnFen
    /\ ~last.err
    /\ pops > 0
    /\ Len(last.pre.moveStack) > 0
    /\ last.pre.epSquare # 0
    /\ last.pre.castlingRights # CastlingNone

\* C6: a SetFen that returns an error leaves every field of the receiver as it
\* was: board, turn, castling rights, en-passant square, clocks, stacks and
\* transposition table.
C6_SetFenAtomicOnFailure ==
    (last.op = "SetFen" /\ last.err) => b = last.pre

\* C6 happens: a text was rejected on a board that has moves on its stacks, a
\* position different from the cleared one and a repetition table with more
\* than the entry a fresh board has.
C6_Witness ==
    /\ last.op = "SetFen"
    /\ last.err
    /\ last.text \in BadFens
    /\ Len(b.moveStack) >= 2
    /\ Cardinality(DOMAIN b.transpositions) >= 2
    /\ b.occupied # BBVoid

-----------------------------------------------------------------------------
(* SAN and castling properties                                             *)

SanInputs(p) ==
    {<<"O", "-", "O">>, <<"O", "-", "O", "+">>, <<"O", "-", "O", "#">>,
     <<"O", "-", "O", "-", "O">>, <<"O", "-", "O", "-", "O", "+">>,
     <<"O", "-", "O", "-", "O", "#">>}
        \cup {San(p, m) : m \in Range(AllPseudoLegal(p))}

\* C8: every non-null move that ParseSan returns without error is one of the
\* moves GenerateLegalMoves returns, the castling literals included.
C8_ParseSanReturnsLegal ==
    \A san \in SanInputs(b) :
        LET r == ParseSan(b, san)
        IN (~r.err /\ r.move # NullMove) => r.move \in Range(AllLegal(b))

\* The two-square moves of the king of the side to move from its home square,
\* when that king stands there.
HomeKingJumps(p) ==
    LET home == IF p.turn = White THEN E1 ELSE E8
    IN IF PieceTypeAt(p, home) = King /\ ColorAt(p, home) = p.turn
       THEN {NewMove(home, home + 2, None), NewMove(home, home - 2, None)}
       ELSE {}

\* C9: IsPseudoLegal accepts a two-square king move from the home square
\* exactly when GeneratePseudoLegalMoves offers that castling move.
C9_CastlingAgreesWithGeneration ==
    \A m \in HomeKingJumps(b) :
        IsPseudoLegal(b, m)
            <=> m \in Range(GeneratePseudoLegalMoves(b, TRUE, FALSE, FALSE, FALSE,
                                                      FALSE, FALSE, FALSE))

-----------------------------------------------------------------------------
(* Repetition properties                                                   *)

\* Two boards show the same position: the same pieces on the same squares,
\* the same side to move, castling rights and en-passant square.
SamePosition(p, q) ==
    /\ p.pieces = q.pieces
    /\ p.occupiedCo = q.occupiedCo
    /\ p.turn = q.turn
    /\ p.castlingRights = q.castlingRights
    /\ p.epSquare = q.epSquare

\* How often position p stands on the line of the game played so far, p being
\* its last position.
Occurrences(p) ==
    1 + Cardinality({k \in 1..Len(snaps) : SamePosition(snaps[k], p)})

\* C10 as claimed: in the knight dance CanClaimThreefoldRepitition() is true
\* exactly at the plies where the current position has occurred three times,
\* and false at every ply where it has occurred fewer than three times.
C10_ClaimOnlyAtThirdOccurrence ==
    CanClaimThreefoldRepitition(b) <=> Occurrences(b) >= 3

\* C10 as amended: in the knight dance CanClaimThreefoldRepitition() is true
\* exactly at the plies where the current position has occurred three times
\* or some legal move leads to a position that then has occurred three times.
C10_ClaimAtThirdOrOneMoveBefore ==
    CanClaimThreefoldRepitition(b)
        <=> \/ Occurrences(b) >= 3
            \/ \E m \in Range(AllLegal(b)) : Occurrences(Push(b, m)) >= 3

\* C10 happens: the claim is available one ply before a third occurrence, the
\* current position having occurred twice.
C10_Witness ==
    /\ CanClaimThreefoldRepitition(b)
    /\ Occurrences(b) = 2
    /\ Len(b.moveStack) = 7
    /\ \E m \in Range(AllLegal(b)) : SamePosition(Push(b, m), snaps[1])

-----------------------------------------------------------------------------
(* Game end properties                                                     *)

\* The board as it was n plies before the last operation, from the boards
\* recorded at each Push.
PliesBefore(n) == IF n = 0 THEN last.pre ELSE snaps[Len(snaps) - n + 1]

\* The count and length conditions of a fivefold repetition, and the hash of
\* four earlier boards, `back` plies apart, equal to the hash of p.
FivefoldConditions(p, back) ==
    /\ Len(p.moveStack) >= 16
    /\ MapGet(p.transpositions, ZobristHash(p)) >= 5
    /\ \A i \in 1..4 : ZobristHash(PliesBefore(back * i)) = ZobristHash(p)

NoLegalMove(p) == \A m \in Range(AllPseudoLegal(p)) : IsIntoCheck(p, m)

C13_FiftyAndSeventyfiveMoves ==
    /\ CanClaimFiftyMoves(b) <=> (b.halfMoveClock >= 100 /\ ~NoLegalMove(b))
    /\ IsSeventyfiveMoves(b) <=> (b.halfMoveClock >= 150 /\ ~NoLegalMove(b))
    /\ (IsCheckmate(b) \/ IsStalemate(b))
          => (~CanClaimFiftyMoves(b) /\ ~IsSeventyfiveMoves(b))

\* A move gave stalemate with the clock at 150: no claim, no seventy-five moves.
C13_Witness ==
    /\ last.op = "Push"
    /\ b.halfMoveClock >= 150
    /\ IsStalemate(b)
    /\ ~CanClaimFiftyMoves(b)
    /\ ~IsSeventyfiveMoves(b)

\* The bishops of a position all stand on squares of one colour.
BishopsOfOneColour(p) ==
    \A x, y \in p.bishops :
        (fileIndex(x) + rankIndex(x)) % 2 = (fileIndex(y) + rankIndex(y)) % 2

\* C14: IsInsufficientMaterial() is false whenever a pawn, rook or queen is on
\* the board; otherwise true when at most 3 pieces remain; otherwise true iff
\* there is no knight and all bishops stand on squares of one colour.  King and
\* bishop against king is insufficient, king and rook against king is not.
C14_InsufficientMaterial ==
    /\ IsInsufficientMaterial(b)
          <=> /\ b.pawns \cup b.rooks \cup b.queens = {}
              /\ \/ Cardinality(b.occupied) <= 3
                 \/ b.knights = {} /\ BishopsOfOneColour(b)
    /\ (Scenarios[scn] = BishopFen /\ b.moveStack = <<>>) => IsInsufficientMaterial(b)
    /\ (Scenarios[scn] = RookFen /\ b.moveStack = <<>>) => ~IsInsufficientMaterial(b)

\* After a move four pieces are left, no knight among them, with bishops on
\* squares of both colours: the material is sufficient.
C14_Witness ==
    /\ last.op = "Push"
    /\ Cardinality(b.occupied) = 4
    /\ b.knights = {}
    /\ b.pawns \cup b.rooks \cup b.queens = {}
    /\ ~BishopsOfOneColour(b)
    /\ ~IsInsufficientMaterial(b)

\* C15: IsCheckmate() is true iff the side to move is in check and has no legal
\* move, IsStalemate() iff it is not in check and has no legal move, never both;
\* the fool's mate position is a checkmate with zero legal moves.
C15_CheckmateAndStalemate ==
    /\ IsCheckmate(b) <=> (IsCheck(b) /\ NoLegalMove(b))
    /\ IsStalemate(b) <=> (~IsCheck(b) /\ NoLegalMove(b))
    /\ ~(IsCheckmate(b) /\ IsStalemate(b))
    /\ Fen(b) = MateFen => (IsCheckmate(b) /\ Len(AllLegal(b)) = 0)

\* The queen's move of the fool's mate was pushed, and the position is the
\* checkmate of the FEN text.
C15_Witness ==
    /\ last.op = "Push"
    /\ Fen(b) = MateFen
    /\ IsCheckmate(b)
    /\ ~IsStalemate(b)

-----------------------------------------------------------------------------
(* Perft properties                                                        *)

\* The leaf counts of the initial position at depths 1 to 4.
PerftLeaves == <<20, 400, 8902, 197281>>

-----------------------------------------------------------------------------
(* En-passant properties                                                   *)

\* The move pushed on p was a pawn's double push.
IsDoublePush(p, move) ==
    /\ move # NullMove
    /\ PieceTypeAt(p, move.fromSquare) = Pawn
    /\ AbsDiff(move.toSquare, move.fromSquare) = 16

\* The square a double push skipped.
SkippedSquare(move) == (move.fromSquare + move.toSquare) \div 2

\* The squares next to square on its rank.
Adjacent(square) ==
    {s \in SquareSet : rankIndex(s) = rankIndex(square)
                          /\ AbsDiff(fileIndex(s), fileIndex(square)) = 1}

\* In position p the move is a capture en passant: a pawn moves diagonally to
\* an empty square.
IsEnPassant(p, move) ==
    /\ PieceTypeAt(p, move.fromSquare) = Pawn
    /\ fileIndex(move.fromSquare) # fileIndex(move.toSquare)
    /\ PieceTypeAt(p, move.toSquare) = None

\* C17: the en-passant target is set only by Push of a pawn double push, to the
\* square the pawn skipped, and is cleared by every other Push, including a
\* null move; the capture en passant by an adjacent enemy pawn is in the move
\* list generated right after the double push, and no capture en passant is
\* in a list generated after another move.
C17_EnPassantTarget ==
    last.op = "Push" =>
        IF IsDoublePush(last.pre, last.move)
        THEN /\ b.epSquare = SkippedSquare(last.move)
             /\ \A s \in Adjacent(last.move.toSquare) \cap b.pawns \cap b.occupiedCo[b.turn] :
                    NewMove(s, b.epSquare, None) \in Range(AllPseudoLegal(b))
             /\ \A m \in Range(AllPseudoLegal(b)) :
                    IsEnPassant(b, m) => m.toSquare = SkippedSquare(last.move)
        ELSE /\ b.epSquare = 0
             /\ \A m \in Range(AllPseudoLegal(b)) : ~IsEnPassant(b, m)

\* A double push had made a capture en passant possible; a null move was
\* pushed instead, and two plies later the capture is no longer offered
\* although the two pawns still stand side by side.
C17_Witness ==
    /\ last.op = "Push"
    /\ Len(b.moveStack) >= 3
    /\ LET n == Len(snaps)
           double == b.moveStack[n - 2]
       IN /\ IsDoublePush(snaps[n - 2], double)
          /\ \E m \in Range(AllPseudoLegal(snaps[n - 1])) : IsEnPassant(snaps[n - 1], m)
          /\ b.moveStack[n - 1] = NullMove
          /\ b.turn = snaps[n - 1].turn
          /\ b.epSquare = 0
          /\ Adjacent(double.toSquare) \cap b.pawns \cap b.occupiedCo[b.turn] # {}
          /\ \A m \in Range(AllPseudoLegal(b)) : ~IsEnPassant(b, m)

-----------------------------------------------------------------------------
(* EPD properties                                                          *)

\* The four position fields of an EPD text, and whether SetFen would accept
\* them followed by the clocks 0 and 1.
EpdFields(epd) == SubSeq(Fields(TrimRight(TrimSpace(epd), {";"})), 1, 4)
EpdFieldsValid(epd) ==
    /\ Len(Fields(TrimRight(TrimSpace(epd), {";"}))) >= 4
    /\ FenValid(Join(EpdFields(epd) \o << <<"0">>, <<"1">> >>, <<" ">>))

\* C18: SetEpd with an EPD text whose four position fields are valid sets the
\* position from those fields: Epd(nil) then renders the same four fields, the
\* half-move clock is 0 and the full-move number is 1 when no hmvc or fmvn
\* operation is given; and SetEpd returns an error when the position fields
\* are invalid.
C18_SetEpdSetsPosition ==
    last.op = "SetEpd" =>
        IF EpdFieldsValid(last.text)
        THEN /\ ~last.err
             /\ Epd(b) = Join(EpdFields(last.text), <<" ">>)
             /\ b.halfMoveClock = 0
             /\ b.fullMoveNumber = 1
        ELSE last.err

-----------------------------------------------------------------------------
(* UCI properties                                                          *)

\* C19: for the null move and for every move with source and destination in
\* 0..63 and promotion in {None, Knight, Bishop, Rook, Queen}, MoveFromUci of
\* the move's Uci() text is a move equal to it; the null move renders as 0000
\* and 0000 parses to the null move.
C19_UciRoundTrip ==
    last.op = "Uci" =>
        /\ MoveFromUci(last.text) = last.move
        /\ (last.move = NullMove <=> last.text = <<"0", "0", "0", "0">>)

C19_Witness ==
    /\ last.op = "Uci"
    /\ last.move = NewMove(52, E8, Queen)
    /\ last.text = <<"e", "7", "e", "8", "q">>
    /\ MoveFromUci(last.text) = last.move

\* A text of length 4 or 5 made of two square names and, at length 5, the
\* symbol of a piece a pawn promotes to.
UciWellFormed(uci) ==
    /\ Len(uci) \in {4, 5}
    /\ \E s \in SquareSet : SquareNames[s] = SubSeq(uci, 1, 2)
    /\ \E s \in SquareSet : SquareNames[s] = SubSeq(uci, 3, 4)
    /\ Len(uci) = 5 => \E t \in {Knight, Bishop, Rook, Queen} : PieceSymbols[t] = uci[5]

\* C20: MoveFromUci returns nil for every invalid UCI text other than 0000: a
\* text of length 4 or 5 whose first two or next two characters are not a
\* square name, or whose fifth character is not a promotion piece symbol,
\* never yields a move object.
C20_InvalidUciIsNil ==
    (last.op = "MoveFromUci" /\ ~UciWellFormed(last.text)) => last.move = NullMove

-----------------------------------------------------------------------------
(* Query properties                                                        *)

\* A move argument that is no move of chess: nil, a square outside 0..63, or
\* a promotion to something a pawn does not promote to.
Nonsensical(move) ==
    \/ move = NullMove
    \/ move.fromSquare \notin SquareSet
    \/ move.toSquare \notin SquareSet
    \/ move.promotion \notin {None, Knight, Bishop, Rook, Queen}

\* C21: IsPseudoLegal, IsLegal and IsAttackedBy never fail: for a null move
\* and for any move or square argument outside 0..63 or otherwise nonsensical
\* they return false instead of panicking, and they leave the position
\* unchanged.
C21_QueriesNeverFail ==
    /\ last.op \in {"IsPseudoLegal", "IsLegal"} =>
          /\ ~last.panic
          /\ Nonsensical(last.move) => (~last.result /\ b = last.pre)
    /\ last.op = "IsAttackedBy" =>
          /\ ~last.panic
          /\ last.square \notin SquareSet => (~last.result /\ b = last.pre)

-----------------------------------------------------------------------------
(* Board representation properties                                         *)

\* The piece-kind bitboards, in the order of the piece types Pawn..King.
KindBoards(p) == <<p.pawns, p.knights, p.bishops, p.rooks, p.queens, p.kings>>

\* C22: after any sequence of Reset, Clear, SetFen, SetPieceAt, RemovePieceAt,
\* Push and Pop: occupied is the union of the two colour occupancies, which
\* are disjoint; each square is in at most one piece-kind bitboard; the
\* piece-kind cache names exactly the kind whose bitboard contains the square
\* (None for empty squares); each king-square cache holds the square of that
\* colour's king whenever that colour has exactly one king.
C22_BoardConsistent ==
    /\ b.occupied = b.occupiedCo[White] \cup b.occupiedCo[Black]
    /\ b.occupiedCo[White] \cap b.occupiedCo[Black] = {}
    /\ \A s \in SquareSet :
          /\ Cardinality({t \in 1..6 : s \in KindBoards(b)[t]}) <= 1
          /\ \A t \in 1..6 : s \in KindBoards(b)[t] <=> b.pieces[s] = t
          /\ s \notin b.occupied <=> b.pieces[s] = None
    /\ \A c \in {White, Black} :
          Cardinality(b.kings \cap b.occupiedCo[c]) = 1
              => b.kings \cap b.occupiedCo[c] = {b.kingSquares[c]}

\* The image of a bitboard under a square permutation.
Image(squares, permutation) == {permutation[s] : s \in squares}

\* C23: after any such sequence each of the three rotated occupancy bitboards
\* (L90, L45, R45) is exactly the image of occupied under its fixed square
\* permutation.
C23_RotatedOccupancy ==
    /\ b.occupiedL90 = Image(b.occupied, SquaresL90)
    /\ b.occupiedL45 = Image(b.occupied, SquaresL45)
    /\ b.occupiedR45 = Image(b.occupied, SquaresR45)

\* A piece was taken off the board by RemovePieceAt, and the rotated
\* occupancies, which differ from occupied, followed.
C23_Witness ==
    /\ last.op = "RemovePieceAt"
    /\ b.occupied # last.pre.occupied
    /\ b.occupiedL90 # last.pre.occupiedL90
    /\ b.occupiedL90 # b.occupied
    /\ b.occupiedL90 = Image(b.occupied, SquaresL90)
    /\ b.occupiedL45 = Image(b.occupied, SquaresL45)
    /\ b.occupiedR45 = Image(b.occupied, SquaresR45)

\* C24: after any such sequence the incrementally maintained board hash equals
\* the board hash recomputed over all occupied squares with the same random
\* table, so ZobristHash(nil) equals ZobristHash(PolyglotRandomArray).
C24_IncrementalHash ==
    /\ BoardZobristHash(b) = BoardZobristHashFull(b)
    /\ ZobristHash(b) = Xor(BoardZobristHashFull(b), DerivedTerms(b))


\* A piece was put on an edited board by SetPieceAt after a Push and a Pop,
\* and the incremental hash changed to the recomputed one.
C24_Witness ==
    /\ last.op = "SetPieceAt"
    /\ pops > 0
    /\ BoardZobristHash(b) # BoardZobristHash(last.pre)
    /\ BoardZobristHash(b) = BoardZobristHashFull(b)

-----------------------------------------------------------------------------
(* History stack properties                                                *)

\* The depths of the five history stacks.
StackDepths(p) ==
    {Len(p.halfMoveClockStack), Len(p.castlingRightStack), Len(p.capturedPieceStack),
     Len(p.epSquareStack), Len(p.moveStack)}

\* C25: after any sequence of Push, Pop and Peek calls following Reset, Clear
\* or SetFen the five history stacks have the same depth, the number of Push
\* calls not yet undone by a Pop (the boards kept in snaps); Peek returns the
\* move the next Pop would return and changes no stack depth or position state.
C25_StackDepths ==
    /\ StackDepths(b) = {Len(snaps)}
    /\ last.op = "Peek" => (last.move = Top(b.moveStack) /\ b = last.pre)

C25_Witness ==
    /\ last.op = "Peek"
    /\ loads > 0
    /\ pops > 0
    /\ StackDepths(b) = {2}
    /\ last.move # NullMove
    /\ last.move = Top(b.moveStack)

-----------------------------------------------------------------------------
(* Independence of instances                                               *)

-----------------------------------------------------------------------------
(* Game tree properties                                                    *)

\* The children without the first one that has the move.
OthersInOrder(variations, move) ==
    SubSeq(variations, 1, VariationByMove(variations, move))
        \o SubSeq(variations, VariationByMove(variations, move) + 2, Len(variations))

\* C28: PromoteToMain(move) on a node whose children contain a variation for
\* the move makes that variation the first child and keeps every other child
\* in its previous relative order; AddMainVariation(move, comment) on a node
\* with k children leaves it with k + 1 children, the new node first, and
\* returns without failing for every k >= 0.
C28_PromoteToMain ==
    /\ pgn.op = "PromoteToMain" =>
          /\ ~pgn.panic
          /\ pgn.variations = <<pgn.pre[VariationByMove(pgn.pre, pgn.move) + 1]>>
                                  \o OthersInOrder(pgn.pre, pgn.move)
    /\ pgn.op = "AddMainVariation" =>
          /\ ~pgn.panic
          /\ Len(pgn.variations) = Len(pgn.pre) + 1
          /\ pgn.variations[1] = [move |-> pgn.move, id |-> pgn.made]

\* C29: RemoveVariation(move) removes exactly the child whose move equals the
\* given move and keeps all other children in their previous order, whatever
\* the position of the removed child (first, middle or last); the number of
\* children decreases by exactly one.
C29_RemoveVariation ==
    pgn.op = "RemoveVariation" =>
        /\ ~pgn.panic
        /\ pgn.variations = OthersInOrder(pgn.pre, pgn.move)
        /\ Len(pgn.variations) = Len(pgn.pre) - 1

-----------------------------------------------------------------------------
(* Export properties                                                       *)

\* The text a file holds once the lines have been written to it.
FileOf(lines) == Concat([i \in 1..Len(lines) |-> lines[i] \o <<"\n">>])

\* C27: when a game is exported through the Exporter interface with a
\* FileExporter, every line a StringExporter would have flushed is written to
\* the file handle, in the same order and with the same content.
C27_FileExporterWritesLines ==
    pgn.op = "Export" => pgn.file.handle = FileOf(pgn.string.lines)

\* The calls an exporter receives for the moves of the tree.
MovetextCalls ==
    {"PutFullMoveNumber", "PutMove", "PutNags", "PutComment", "PutStartingComment",
     "StartVariation", "EndVariation"}

\* The calls of a whole game in their order: StartGame, the headers when
\* requested, the movetext, PutResult, EndGame.
GameCallsInOrder(calls, headers, tags) ==
    /\ Len(calls) >= 3 + (IF headers THEN tags + 2 ELSE 0)
    /\ calls[1] = "StartGame"
    /\ headers => /\ calls[2] = "StartHeaders"
                  /\ \A k \in 3..(tags + 2) : calls[k] = "PutHeader"
                  /\ calls[tags + 3] = "EndHeaders"
    /\ \A k \in ((IF headers THEN tags + 4 ELSE 2))..(Len(calls) - 2) :
          calls[k] \in MovetextCalls
    /\ calls[Len(calls) - 1] = "PutResult"
    /\ calls[Len(calls)] = "EndGame"

\* C30: Export called on the root of a game whose nodes have no side
\* variations (a game with no moves included) terminates and calls StartGame
\* exactly once first, then the headers when requested, then the movetext,
\* then PutResult exactly once and EndGame exactly once last, with the
\* variations flag on or off.
C30_ExportOrder ==
    (/\ pgn.op = "Export"
     /\ pgn.id = 0
     /\ \A k \in 1..Len(pgn.nodes) : Len(pgn.nodes[k].variations) <= 1)
    => /\ ~pgn.overflow
       /\ ~pgn.panic
       /\ GameCallsInOrder(pgn.calls, pgn.headers, Cardinality(DOMAIN pgn.Headers))

-----------------------------------------------------------------------------
(* Null move properties                                                    *)

\* What a null move must leave alone: the piece bitboards, the occupancies,
\* the piece cache, the king squares and the castling rights.
BoardOf(p) ==
    <<KindBoards(p), p.occupied, p.occupiedCo, p.occupiedL90, p.occupiedR45,
      p.occupiedL45, p.pieces, p.kingSquares, p.castlingRights>>

\* The depths of the five history stacks, in a fixed order.
DepthsOf(p) ==
    <<Len(p.halfMoveClockStack), Len(p.castlingRightStack), Len(p.capturedPieceStack),
      Len(p.epSquareStack), Len(p.moveStack)>>

\* C31: Push of a null move changes no piece bitboard, occupancy, piece cache,
\* king square or castling right; it flips the turn, clears the en-passant
\* target, adds one to the half-move clock, adds one to the full-move number
\* iff Black was to move, and adds exactly one frame to each history stack;
\* the following Pop restores turn, en-passant target, clocks and full-move
\* number.
C31_NullMove ==
    /\ (last.op = "Push" /\ last.move = NullMove) =>
          /\ BoardOf(b) = BoardOf(last.pre)
          /\ b.turn = Other(last.pre.turn)
          /\ b.epSquare = 0
          /\ b.halfMoveClock = last.pre.halfMoveClock + 1
          /\ b.fullMoveNumber =
                last.pre.fullMoveNumber + (IF last.pre.turn = Black THEN 1 ELSE 0)
          /\ DepthsOf(b) = [k \in 1..5 |-> DepthsOf(last.pre)[k] + 1]
    /\ (last.op = "Pop" /\ last.move = NullMove) =>
          /\ b.turn = last.snap.turn
          /\ b.epSquare = last.snap.epSquare
          /\ b.halfMoveClock = last.snap.halfMoveClock
          /\ b.fullMoveNumber = last.snap.fullMoveNumber

\* A null move by Black, made while an en-passant target was set, is popped.
C31_Witness ==
    /\ last.op = "Pop"
    /\ last.move = NullMove
    /\ last.snap.turn = Black
    /\ last.snap.epSquare # 0

-----------------------------------------------------------------------------
(* Attack and castling properties                                          *)

\* The squares strictly between two squares of one rank, file or diagonal.
Between(from, to) ==
    LET df == fileIndex(to) - fileIndex(from)
        dr == rankIndex(to) - rankIndex(from)
        n == IF df # 0 THEN (IF df < 0 THEN -df ELSE df) ELSE (IF dr < 0 THEN -dr ELSE dr)
    IN {Sq(fileIndex(from) + (i * df) \div n, rankIndex(from) + (i * dr) \div n) :
           i \in 1..(n - 1)}

\* By the rules of chess the piece of position p on the square from attacks
\* the square to.
AttacksByRule(p, from, to) ==
    LET df == fileIndex(to) - fileIndex(from)
        dr == rankIndex(to) - rankIndex(from)
        straight == (df = 0) # (dr = 0)
        diagonal == df # 0 /\ (df = dr \/ df = -dr)
        open == Between(from, to) \cap p.occupied = {}
    IN \/ from \in p.pawns /\ df \in {-1, 1}
            /\ dr = (IF from \in p.occupiedCo[White] THEN 1 ELSE -1)
       \/ from \in p.knights /\ <<df, dr>> \in KnightDeltas
       \/ from \in p.kings /\ <<df, dr>> \in KingDeltas
       \/ from \in p.rooks \cup p.queens /\ straight /\ open
       \/ from \in p.bishops \cup p.queens /\ diagonal /\ open

\* A piece of the colour attacks the square.
AttackedByRule(p, color, square) ==
    \E from \in p.occupiedCo[color] : AttacksByRule(p, from, square)

\* The four castling moves: the right, the squares between king and rook, the
\* squares the king stands on, passes and reaches, and the rook's corner.
CastlingKinds ==
    {[move |-> NewMove(E1, G1, None), color |-> White, right |-> CastlingWhiteKingSide,
      between |-> {F1, G1}, king |-> {E1, F1, G1}, rook |-> H1],
     [move |-> NewMove(E1, C1, None), color |-> White, right |-> CastlingWhiteQueenSide,
      between |-> {B1, C1, D1}, king |-> {E1, D1, C1}, rook |-> A1],
     [move |-> NewMove(E8, G8, None), color |-> Black, right |-> CastlingBlackKingSide,
      between |-> {F8, G8}, king |-> {E8, F8, G8}, rook |-> H8],
     [move |-> NewMove(E8, C8, None), color |-> Black, right |-> CastlingBlackQueenSide,
      between |-> {B8, C8, D8}, king |-> {E8, D8, C8}, rook |-> A8]}

\* The castling moves GeneratePseudoLegalMoves offers in the position.
CastlingOffered(p) ==
    Range(GeneratePseudoLegalMoves(p, TRUE, FALSE, FALSE, FALSE, FALSE, FALSE, FALSE))

\* C32: GeneratePseudoLegalMoves with the castling flag offers a castling move
\* only if its castling right is set, every square strictly between the
\* king's and the rook's home squares is empty, and none of the king's
\* origin, transit and destination squares is attacked by the opponent.
C32_CastlingOffered ==
    \A m \in CastlingOffered(b) :
        \E c \in CastlingKinds :
            /\ c.move = m
            /\ c.color = b.turn
            /\ b.castlingRights \cap c.right # {}
            /\ c.between \cap b.occupied = {}
            /\ \A square \in c.king : ~AttackedByRule(b, Other(b.turn), square)

\* Castling is offered although the rook's own square is attacked.
C32_Witness ==
    \E c \in CastlingKinds :
        /\ c.move \in CastlingOffered(b)
        /\ AttackedByRule(b, Other(b.turn), c.rook)


\* The bitboards of the position agree with one another: the occupancies are
\* the union of the piece kinds, split by colour, and the rotated occupancies
\* are the images of occupied.
ConsistentBitboards(p) ==
    /\ p.occupied = UNION Range(KindBoards(p))
    /\ p.occupied = p.occupiedCo[White] \cup p.occupiedCo[Black]
    /\ p.occupiedCo[White] \cap p.occupiedCo[Black] = {}
    /\ \A i, j \in 1..6 : i # j => KindBoards(p)[i] \cap KindBoards(p)[j] = {}
    /\ p.occupiedL90 = Image(p.occupied, SquaresL90)
    /\ p.occupiedR45 = Image(p.occupied, SquaresR45)
    /\ p.occupiedL45 = Image(p.occupied, SquaresL45)

\* C33: in a position with consistent bitboards, for every colour and every
\* square, IsAttackedBy(color, square) is true exactly if
\* AttackerMask(color, square) is not zero.
C33_AttackAgreement ==
    ConsistentBitboards(b) =>
        \A color \in {White, Black}, square \in SquareSet :
            IsAttackedBy(b, color, square) <=> AttackerMask(b, color, square) # {}

\* After a move, a bishop stands on a square of the pawn-attack mask and a
\* queen on a square of the king-attack mask of some square: the two tests
\* that only IsAttackedBy makes both answer true.
C33_Witness ==
    /\ last.op = "Push"
    /\ ConsistentBitboards(b)
    /\ \E color \in {White, Black}, square \in SquareSet :
          /\ BBPawnAttacks[Other(color)][square] \cap b.bishops \cap b.occupiedCo[color] # {}
          /\ KingAttacksFrom(b, square) \cap b.queens \cap b.occupiedCo[color] # {}


-----------------------------------------------------------------------------
(* PushSan properties                                                      *)

\* The moves ParseSan has to choose from for the groups m of a token: the
\* pseudo-legal moves of position p, castling left aside, made by a piece of
\* the named kind (a pawn when the token names none) to the destination, with
\* the promotion, from the file and the rank if the token gives them, and that
\* do not leave the mover's king in check.
SanCandidates(p, m) ==
    LET kind == IF m.piece = <<>> THEN Pawn
                ELSE CHOOSE t \in 1..6 : UpperSymbols[t] = m.piece[1]
        promotion == IF m.promo = <<>> THEN None
                     ELSE CHOOSE t \in 1..6 : UpperSymbols[t] = m.promo[2]
                                                 \/ PieceSymbols[t] = m.promo[2]
    IN {c \in Range(GeneratePseudoLegalMoves(p, FALSE, TRUE, TRUE, TRUE, TRUE, TRUE, TRUE)) :
           /\ PieceTypeAt(p, c.fromSquare) = kind
           /\ SquareNames[c.toSquare] = m.dest
           /\ c.promotion = promotion
           /\ m.file # <<>> => FileNames[fileIndex(c.fromSquare) + 1] = m.file[1]
           /\ m.rank # <<>> => Itoa(rankIndex(c.fromSquare) + 1) = m.rank
           /\ ~WasIntoCheck(Push(p, c))}

\* The last call was PushSan with a token that is no castling literal, no null
\* move and matches SanRegex.
PushedValidSan ==
    /\ last.op = "PushSan"
    /\ last.text # <<"-", "-">>
    /\ last.text[1] # "O"
    /\ SanMatch(last.text).ok

\* C34: for a syntactically valid non-castling SAN token, ParseSan returns the
\* move when exactly one candidate remains, fails as ambiguous when more than
\* one remains and as illegal when none remains; PushSan pushes the move when
\* parsing succeeded and leaves the position as it was otherwise.
C34_PushSan ==
    PushedValidSan =>
        LET candidates == SanCandidates(last.pre, SanMatch(last.text))
        IN /\ Cardinality(candidates) = 1 =>
                 /\ last.kind = ""
                 /\ candidates = {last.move}
                 /\ b = Push(last.pre, last.move)
           /\ Cardinality(candidates) > 1 => (last.kind = "ambiguous" /\ b = last.pre)
           /\ Cardinality(candidates) = 0 => (last.kind = "illegal" /\ b = last.pre)

\* A PushSan failed as ambiguous: more than one candidate remained, and the
\* position is the one before the call.
C34_Witness ==
    /\ PushedValidSan
    /\ last.kind = "ambiguous"
    /\ Cardinality(SanCandidates(last.pre, SanMatch(last.text))) > 1
    /\ b = last.pre


-----------------------------------------------------------------------------
(* EPD rendering properties                                                *)

\* C35: for the same position and the same operations with two or more
\* opcodes, every call of Epd returns the same string: a call that follows
\* another one with the same arguments on the same position returns what the
\* first returned.
C35_EpdSameString ==
    [][(/\ last.op = "Epd" /\ last'.op = "Epd"
        /\ last'.operations = last.operations
        /\ last'.pre = last.pre
        /\ Cardinality(DOMAIN last.operations) >= 2)
          => last'.text = last.text]_vars


-----------------------------------------------------------------------------
(* Castling rights in games from the initial position                      *)

\* The last move pushed was a castling move offered by the generation.
PushedCastling ==
    /\ last.op = "Push"
    /\ last.move # NullMove
    /\ last.move \in CastlingOffered(last.pre)

\* C36: in every position reached from the initial position by legal moves,
\* Status() does not contain the bad-castling-rights flag, and a castling move
\* that was generated and pushed found a rook of the mover on the corner and
\* left the number of pieces as it was.
C36_CastlingRightsBacked ==
    /\ ~StatusBadCastlingRights(b)
    /\ PushedCastling =>
          \A c \in CastlingKinds :
              c.move = last.move =>
                  /\ c.rook \in last.pre.rooks \cap last.pre.occupiedCo[c.color]
                  /\ Cardinality(b.occupied) = Cardinality(last.pre.occupied)


-----------------------------------------------------------------------------
(* Move validation properties                                              *)

\* Every move with source and destination on the board and any piece type,
\* or none, as promotion.
BoardMoves ==
    {NewMove(fromSquare, toSquare, promotion) :
        fromSquare \in SquareSet, toSquare \in SquareSet, promotion \in None..King}

\* A move of the king of position p over two squares of its rank.
KingJump(p, m) ==
    /\ PieceTypeAt(p, m.fromSquare) = King
    /\ rankIndex(m.fromSquare) = rankIndex(m.toSquare)
    /\ AbsDiff(m.fromSquare, m.toSquare) = 2

\* IsPseudoLegal and the generation of all classes agree on the moves.
PseudoLegalAgrees(p, generated, moves) ==
    \A m \in moves :
        ~KingJump(p, m) => (IsPseudoLegal(p, m) <=> m \in generated)

\* C37: for every move with source and destination in 0..63 that is no
\* two-square king move, IsPseudoLegal is true exactly if the move is one of
\* GeneratePseudoLegalMoves with all classes enabled; a pawn move to the
\* farthest rank with promotion King or Pawn is not accepted.
C37_PseudoLegalAgrees ==
    PseudoLegalAgrees(b, Range(AllPseudoLegal(b)), BoardMoves)


-----------------------------------------------------------------------------
(* Trial move properties                                                   *)

\* The queries that try moves with Push and Pop.
TrialQueries ==
    {"IsIntoCheck", "GenerateLegalMoves", "IsLegal", "San", "CanClaimThreefoldRepitition",
     "IsFivefoldRepitition"}

\* The history stacks of a position.
StacksOf(p) ==
    <<p.moveStack, p.capturedPieceStack, p.castlingRightStack, p.epSquareStack,
      p.halfMoveClockStack>>

\* C38: after IsIntoCheck, GenerateLegalMoves, IsLegal, San,
\* CanClaimThreefoldRepitition or IsFivefoldRepitition has returned, the
\* pieces, the turn, the castling rights, the en-passant square, the clocks,
\* the contents of the history stacks and the occurrence counts are what they
\* were before the call.
C38_TrialsLeaveNoTrace ==
    last.op \in TrialQueries =>
        /\ BoardOf(b) = BoardOf(last.pre)
        /\ b.turn = last.pre.turn
        /\ b.epSquare = last.pre.epSquare
        /\ b.halfMoveClock = last.pre.halfMoveClock
        /\ b.fullMoveNumber = last.pre.fullMoveNumber
        /\ StacksOf(b) = StacksOf(last.pre)
        /\ b.transpositions = last.pre.transpositions


-----------------------------------------------------------------------------
(* SquareSet and bit operation properties                                  *)

\* C39: a range loop over the channel of Iter receives every square of the
\* set exactly once in ascending order and then ends, the producer having
\* closed the channel: neither goroutine stays blocked for ever.
C39_IterEnds ==
    <>(/\ two.consumer = "done"
       /\ two.closed
       /\ two.received = ScanSeq(two.mask))

\* C40: for every n in 0..64 bitScan(b, n) returns, without failing, the
\* index of the lowest set bit of b that is at least n, or -1 if there is
\* none, and popCount(b) returns the number of set bits.
C40_BitScan ==
    /\ two.op = "bitScan" =>
          /\ ~two.panic
          /\ two.result = IF \E i \in two.mask : i >= two.n
                          THEN CHOOSE i \in two.mask :
                                   i >= two.n /\ \A j \in two.mask : j >= two.n => i <= j
                          ELSE -1
    /\ two.op = "popCount" => two.result = Cardinality(two.mask)

====
